---- MODULE Spec2Model ----
(***************************************************************************)
(* The Outie orchestrator (src/src/orchestrator): the session coordinator  *)
(* Orchestrator.invoke, the alarm handler Orchestrator.alarm with          *)
(* scheduleNextAlarm, the scheduling tools of the MCP server, and the      *)
(* store operations and the cron evaluator they use.                       *)
(*                                                                         *)
(* A Durable Object runs one event at a time and lets another event in     *)
(* only while the running one awaits I/O.  One action of this module is    *)
(* one such run: from the delivery of an event, or the return of an        *)
(* awaited call, up to the next awaited call.                              *)
(*                                                                         *)
(* Values: times are epoch milliseconds; a session id is a positive        *)
(* integer and 0 stands for null; a scheduledTime of 0 stands for SQL      *)
(* NULL and a cronExpression of << >> for SQL NULL; a reminder id is a     *)
(* positive integer and a triggerId of 0 stands for undefined; texts are   *)
(* sequences of characters.                                                *)
(***************************************************************************)
EXTENDS Integers, Sequences, FiniteSets, TLC

\* ------------------------------------------------------------- bounds
\* Invocations of invoke() that a behaviour holds at once (a chat keeps its
\* slot; alarm() frees the slot of the invoke it awaited).
NInv == 3
\* Advances of the wall clock in one behaviour.
MaxTicks == 5
\* Advances of the wall clock in one behaviour of the session coordinator alone.
MaxChatTicks == 1
\* Reminders that the scheduling tools may hold in the store at once.
MaxReminders == 2
\* Reminders that alarm() dispatches in one behaviour.
MaxDispatch == 2
\* The one-shot datetimes offered to schedule_once, in ticks from the start.
MaxOnce == 2
\* Ticks of the clock while the tools are called with any id.
MaxToolTicks == 1
\* Summaries saved in a run.
MaxSummaries == 1
\* JSON-RPC requests the MCP server handles in a run.
MaxRpc == 2
\* WebSockets the orchestrator opens to the bridge in a run.
MaxSockets == 2
\* HTTP requests the bridge receives in a run.
MaxBridgeRequests == 2
\* Ticks of the clock while the bridge forwards requests.
MaxBridgeTicks == 2
\* Events of the commit gate in a run: idle sessions and changes of the git state.
MaxGateEvents == 4
\* The chat messages that arrive where the scheduler is the subject.
MaxEarlyChats == 2

\* ---------------------------------------------------- program constants
\* "Fire if within 1 minute of scheduled time": Math.abs(time - now) < 60000
FIRE_WINDOW == 60000
\* "one-shot reminders that are in the past (missed)": time < now - 60000
MISS_WINDOW == 60000

MINUTE == 60 * 1000
HOUR == 60 * MINUTE
DAY == 24 * HOUR
\* JavaScript's Infinity, above every time of the model.
Infinity == 2 * 1000000000
\* The clock advances in thirds of the fire window, so that two deliveries
\* of the alarm fit inside one window and the window's bounds are hit.
Tick == FIRE_WINDOW \div 3
\* Once a whole window has passed the clock is read every second tick.
Step(now) == IF now < FIRE_WINDOW THEN Tick ELSE 2 * Tick
MaxClock == MaxTicks * Tick

Inv == 1..NInv

VARIABLES
    clock,                \* Date.now()
    uuid,                 \* crypto.randomUUID(): the ids handed out so far
    conversation,         \* table conversation, rows in rowid order
    reminders,            \* table reminders, rows in rowid order
    alarmAt,              \* ctx.storage alarm: its time, 0 when none is set
    mcpBridgeConnecting,  \* Orchestrator.mcpBridgeConnecting
    currentSessionId,     \* Orchestrator.currentSessionId, 0 for null
    isProcessing,         \* Orchestrator.isProcessing
    nextSession,          \* the engine: sessions it has created so far
    inv,                  \* the invocations of invoke(): position and locals
    alarmPc,              \* alarm(): "idle" or "await" (awaiting an invoke)
    alarmNow,             \* alarm(): const now
    alarmReminders,       \* alarm(): const reminders (the snapshot)
    alarmIdx,             \* alarm(): index of the reminder being handled
    alarmInv,             \* alarm(): the invocation it awaits
    fired,                \* the "[ORCHESTRATOR] Firing reminder" log
    missed,               \* the "[ORCHESTRATOR] Deleting missed one-shot reminder" log
    summaries,            \* table summaries, rows in rowid order
    toolResult,           \* the result of the last tools/call sent over the uplink
    rpcLog,               \* McpServer: the JSON-RPC requests handled, with their responses
    sockets,              \* the WebSockets of the uplink: their state at either end
    mcpBridgeSocket,      \* Orchestrator.mcpBridgeWs: which socket it is, 0 for null
    doConnection,         \* bridge: doConnection, which socket it is, 0 for null
    pendingRequests,      \* bridge: the keys of the map pendingRequests
    bridgeRequests,       \* bridge: the HTTP requests received, with their replies
    wire,                 \* the messages in flight on the sockets
    env,                  \* Outie: the bindings of the worker's environment
    allowedUrls,          \* Outie.allowedUrls
    fetchLog,             \* Outie: the calls of fetchPage, with what they did
    cronCall,             \* a call of getNextCronTime: its arguments and its outcome
    journal,              \* the rows of the table journal
    codingCall,           \* a call of decideCodingTaskAction: its inputs and its decision
    gitState,             \* the working tree of the sandbox, as git reports it
    prompted,             \* CommitGatePlugin: the set prompted
    gateLog,              \* the events of the commit gate, with whether a follow-up was sent
    handlerErrors,        \* the requestIds whose frame the orchestrator failed to handle
    gateRuns,             \* the runs of the commit gate's handler that await a git command
    rpcAwaiting,          \* McpServer: the journal_write requests that await getEmbedding
    absorbedTo,           \* history: the toTimestamp of each row of summaries
    given                 \* history: the ids of the Messages given to a session.prompt

vars == <<clock, uuid, conversation, reminders, alarmAt,
          mcpBridgeConnecting, currentSessionId, isProcessing, nextSession,
          inv, alarmPc, alarmNow, alarmReminders, alarmIdx, alarmInv, fired, missed,
          summaries, toolResult, rpcLog, sockets, mcpBridgeSocket, doConnection,
          pendingRequests, bridgeRequests, wire, env, allowedUrls, fetchLog, cronCall, journal,
          codingCall,
          gitState,
          prompted,
          gateLog,
          handlerErrors,
          gateRuns,
          rpcAwaiting,
          absorbedTo,
          given>>

sessionVars == <<currentSessionId, isProcessing, nextSession, given>>
alarmVars == <<alarmPc, alarmNow, alarmReminders, alarmIdx, alarmInv, fired, missed>>
storeVars == <<conversation, reminders, alarmAt>>
uplinkVars == <<mcpBridgeSocket, mcpBridgeConnecting>>
toolVars == <<summaries, absorbedTo, toolResult>>
\* The state of the orchestrator's session coordinator, scheduler and tools.
orchestratorVars == <<clock, uuid, storeVars, uplinkVars, sessionVars, inv, alarmVars, toolVars>>
\* The state of the components around them.
bridgeVars == <<sockets, doConnection, pendingRequests, bridgeRequests, wire, handlerErrors>>
agentVars == <<env, allowedUrls, fetchLog>>
\* The calls of the pure functions.
callVars == <<cronCall, codingCall>>
gateVars == <<gitState, prompted, gateLog, gateRuns>>
otherVars == <<rpcLog, rpcAwaiting, journal, bridgeVars, agentVars, callVars, gateVars>>

\* ------------------------------------------------------------ texts
Whitespace == {" ", "\n"}

RECURSIVE trimStart(_)
trimStart(s) ==
    IF s = << >> THEN s
    ELSE IF Head(s) \in Whitespace THEN trimStart(Tail(s)) ELSE s

RECURSIVE trimEnd(_)
trimEnd(s) ==
    IF s = << >> THEN s
    ELSE IF s[Len(s)] \in Whitespace THEN trimEnd(SubSeq(s, 1, Len(s) - 1)) ELSE s

\* String.prototype.trim
trim(s) == trimEnd(trimStart(s))

\* Array.prototype.join('\n')
RECURSIVE join(_)
join(texts) ==
    IF texts = << >> THEN << >>
    ELSE IF Len(texts) = 1 THEN texts[1]
    ELSE texts[1] \o <<"\n">> \o join(Tail(texts))

\* for (const p of parts) if (p.type === 'text' && 'text' in p) textParts.push(p.text ?? '')
RECURSIVE textParts(_)
textParts(parts) ==
    IF parts = << >> THEN << >>
    ELSE IF Head(parts).type = "text"
         THEN <<Head(parts).text>> \o textParts(Tail(parts))
         ELSE textParts(Tail(parts))

\* const response = textParts.join('\n')
extractResponse(parts) == join(textParts(parts))

TextPart(t) == [type |-> "text", text |-> t]
ToolPart == [type |-> "tool", text |-> << >>]

\* What session.prompt may resolve to: result.data?.parts ?? [].
PromptParts ==
    { << >>,
      <<TextPart(<<"o", "k">>)>>,
      <<TextPart(<<" ">>), ToolPart, TextPart(<< >>)>> }

\* The texts of chat messages.
Payloads == { <<"h", "i">> }

\* ------------------------------------------------------------ store
\* buildContext reads getRecentConversation(sql, 30).
RECENT_LIMIT == 30

\* A mutant of appendConversation: the row is put in front of the others.
appendConversation_Front(conv, msg) == <<msg>> \o conv

\* INSERT INTO conversation: the new row takes the next rowid.
appendConversation(conv, msg) == Append(conv, msg)

\* Rows by ascending timestamp; rows of one timestamp stay in rowid order
\* (the scan of idx_conversation_timestamp that SQLite answers the query by).
RECURSIVE insertByTimestamp(_, _)
insertByTimestamp(sorted, row) ==
    IF sorted = << >> THEN <<row>>
    ELSE IF sorted[Len(sorted)].timestamp <= row.timestamp THEN Append(sorted, row)
    ELSE Append(insertByTimestamp(SubSeq(sorted, 1, Len(sorted) - 1), row),
                sorted[Len(sorted)])

RECURSIVE orderByTimestamp(_)
orderByTimestamp(rows) ==
    IF rows = << >> THEN << >>
    ELSE insertByTimestamp(orderByTimestamp(SubSeq(rows, 1, Len(rows) - 1)),
                           rows[Len(rows)])

\* ORDER BY timestamp DESC LIMIT ?, then rows.reverse()
getRecentConversation(conv, limit) ==
    LET s == orderByTimestamp(conv)
    IN  IF Len(s) <= limit THEN s ELSE SubSeq(s, Len(s) - limit + 1, Len(s))

\* DELETE FROM conversation
clearConversation(conv) == << >>

\* INSERT INTO summaries
saveSummary(rows, summary) == Append(rows, summary)

UserMessage(id, payload, now) ==
    [id |-> id, role |-> "user", content |-> payload, timestamp |-> now,
     trigger |-> "message"]

AssistantMessage(id, response, now, type) ==
    [id |-> id, role |-> "assistant", content |-> response, timestamp |-> now,
     trigger |-> type]

\* ------------------------------------------------------------ dates
\* Date.prototype.setMinutes, setHours (UTC, the zone of a Worker), and
\* setSeconds(0) with setMilliseconds(0).
setMinutes(t, m) == t - ((t % HOUR) \div MINUTE) * MINUTE + m * MINUTE
setHours(t, h) == t - ((t % DAY) \div HOUR) * HOUR + h * HOUR
clearSeconds(t) == t - (t % MINUTE)
\* Date.prototype.getDay: 0 is Sunday, and 1 January 1970 was a Thursday.
getDay(t) == ((t \div DAY) + 4) % 7

\* JavaScript's NaN, told apart from every number of the model, none of
\* which is negative.
NaN == -1
\* parseInt(field, 10) of the fields the model evaluates: the digits at the
\* front of the field, NaN when there is none.
parseInt(field) ==
    CASE field = "0" -> 0
      [] field = "1" -> 1
      [] field = "2" -> 2
      [] field = "4" -> 4
      [] field = "7" -> 7
      [] field = "9" -> 9
      [] field = "1-5" -> 1
      [] field = "x" -> NaN
      [] field = "*/5" -> NaN

\* while (next.getDay() !== targetDay) next.setDate(next.getDate() + 1)
RECURSIVE nextWeekday(_, _)
nextWeekday(t, targetDay) ==
    IF getDay(t) = targetDay THEN t ELSE nextWeekday(t + DAY, targetDay)

\* getNextCronTime(cron) at the time now, for an expression of five fields,
\* each '*' or one of the literals above; cron is the result of cron.split(" ").
getNextCronTime(cron, now) ==
    LET minute == cron[1]
        hour == cron[2]
        dayOfWeek == cron[5]
        m == IF minute # "*" THEN setMinutes(now, parseInt(minute)) ELSE now
        h == IF hour # "*" THEN setHours(m, parseInt(hour)) ELSE m
        z == clearSeconds(h)
        next == IF z <= now THEN z + DAY ELSE z
    IN  IF dayOfWeek # "*" THEN nextWeekday(next, parseInt(dayOfWeek)) ELSE next

\* The outcomes of a call of getNextCronTime.
NotEvaluated == [kind |-> "none", time |-> 0]
CronReturns(time) == [kind |-> "returns", time |-> time]
CronThrows == [kind |-> "throws", time |-> 0]
CronHangs == [kind |-> "hangs", time |-> 0]

\* getNextCronTime(cron) at the time now, for any expression. Without five
\* fields it throws. A minute or an hour that parses to NaN makes next an
\* invalid date, which is not <= now and whose getDay() is NaN; a day of
\* the week that getDay() never returns makes the while loop endless.
getNextCronTimeOutcome(cron, now) ==
    IF Len(cron) # 5 THEN CronThrows
    ELSE LET minute == cron[1]
             hour == cron[2]
             dayOfWeek == cron[5]
             invalidDate == \/ (minute # "*" /\ parseInt(minute) = NaN)
                            \/ (hour # "*" /\ parseInt(hour) = NaN)
         IN  IF dayOfWeek # "*" /\ (invalidDate \/ parseInt(dayOfWeek) \notin 0..6)
             THEN CronHangs
             ELSE IF invalidDate THEN CronReturns(NaN)
             ELSE CronReturns(getNextCronTime(cron, now))

\* ---------------------------------------------------------- reminders
\* The ids the model schedules under: recurring reminders under the ids of
\* RecurringIds, one-shots under the others.
ReminderIds == 1..MaxReminders
RecurringIds == {1}
OnceIds == ReminderIds \ RecurringIds
\* The cron expressions the model schedules: "1 0 * * *".
CronInputs == { <<"1", "0", "*", "*", "*">> }
\* The cron arguments of a tools/call: a cron expression, or << >> for a call
\* whose cron is absent or the empty string (what alarm() and
\* scheduleNextAlarm() test with `reminder.cronExpression ?`).
CronArgs == CronInputs \cup { << >> }
\* The datetimes the model schedules one-shots at.
OnceTimes == {k * Tick : k \in 1..MaxOnce}
\* The datetime of the one-shots where the tools are called with any id.
ToolOnceTimes == {Tick}
Description == <<"w">>
Payload == <<"p">>

RECURSIVE withoutId(_, _)
withoutId(rows, id) ==
    IF rows = << >> THEN << >>
    ELSE IF Head(rows).id = id THEN withoutId(Tail(rows), id)
    ELSE <<Head(rows)>> \o withoutId(Tail(rows), id)

\* A mutant of deleteReminder: the row is left in the table.
deleteReminder_Keep(rows, id) == rows

\* A mutant of deleteReminder: the oldest row is deleted, whatever its id.
deleteReminder_First(rows, id) == IF rows = << >> THEN rows ELSE Tail(rows)

\* DELETE FROM reminders WHERE id = ?
deleteReminder(rows, id) == withoutId(rows, id)

\* INSERT OR REPLACE INTO reminders: a row of that id is removed and the new
\* row takes the next rowid.
saveReminder(rows, reminder) == Append(withoutId(rows, reminder.id), reminder)

\* SELECT ... FROM reminders
getAllReminders(rows) == rows

\* const time = reminder.scheduledTime ??
\*   (reminder.cronExpression ? getNextCronTime(reminder.cronExpression) : Infinity)
reminderTime(reminder, now) ==
    IF reminder.scheduledTime # 0 THEN reminder.scheduledTime
    ELSE IF reminder.cronExpression # << >>
         THEN getNextCronTime(reminder.cronExpression, now)
         ELSE Infinity

Min(S) == CHOOSE x \in S : \A y \in S : x <= y
Abs(x) == IF x < 0 THEN 0 - x ELSE x

\* scheduleNextAlarm: the alarm it leaves installed (0: deleteAlarm).
scheduleNextAlarm(rows, now) ==
    LET all == getAllReminders(rows)
        future == {t \in {reminderTime(all[k], now) : k \in 1..Len(all)} :
                      t > now /\ t < Infinity}
    IN  IF Len(all) = 0 THEN 0
        ELSE IF future = {} THEN 0
        ELSE Min(future)

\* alarm(): const isOneShot = !!reminder.scheduledTime
isOneShot(reminder) == reminder.scheduledTime # 0

\* A mutant of isMissed: no reminder counts as missed.
isMissed_Never(reminder, time, now) == FALSE

\* alarm(): "For one-shot reminders that are in the past (missed), delete them"
isMissed(reminder, time, now) == isOneShot(reminder) /\ time < now - MISS_WINDOW

\* alarm(): "Fire if within 1 minute of scheduled time"
isDue(time, now) == Abs(time - now) < FIRE_WINDOW

\* The line alarm() logs when it deletes a missed one-shot, with its time and
\* the now of the alarm.
MissedEntry(reminder, now) ==
    [id |-> reminder.id, createdAt |-> reminder.createdAt,
     time |-> reminder.scheduledTime, now |-> now]

\* alarm(): the for loop over the snapshot from index idx up to the reminder
\* whose invoke it awaits next (fire, 0 when the loop ends), with the rows it
\* leaves in the table.  now is the const of alarm(), clk the time of this run
\* of the loop.  The invoke of a reminder of `throwing` throws before its first
\* await (buildContext fails on its read of the store): the catch logs and
\* the loop goes on; `thrown` are those reminders, in the order fired.
RECURSIVE alarmLoop(_, _, _, _, _, _)
alarmLoop(rows, snapshot, idx, now, clk, throwing) ==
    IF idx > Len(snapshot)
    THEN [rows |-> rows, fire |-> 0, missed |-> << >>, thrown |-> << >>]
    ELSE LET reminder == snapshot[idx]
             time == reminderTime(reminder, clk)
             left == IF isOneShot(reminder) THEN deleteReminder(rows, reminder.id) ELSE rows
         IN  IF isMissed(reminder, time, now)
             THEN LET rest == alarmLoop(deleteReminder(rows, reminder.id),
                                        snapshot, idx + 1, now, clk, throwing)
                  IN  [rest EXCEPT !.missed = <<MissedEntry(reminder, now)>> \o @]
             ELSE IF isDue(time, now) /\ idx \in throwing
             THEN LET rest == alarmLoop(left, snapshot, idx + 1, now, clk, throwing)
                  IN  [rest EXCEPT !.thrown = <<idx>> \o @]
             ELSE IF isDue(time, now)
             THEN [rows |-> left, fire |-> idx, missed |-> << >>, thrown |-> << >>]
             ELSE alarmLoop(rows, snapshot, idx + 1, now, clk, throwing)

\* payload: `[REMINDER: ${reminder.description}]\n\n${reminder.payload}`
AlarmTrigger(reminder) ==
    [type |-> "alarm", triggerId |-> reminder.id,
     payload |-> <<"[REMINDER: ">> \o reminder.description \o <<"]\n\n">> \o reminder.payload]

\* ------------------------------------------------------- invocations
\* An invocation that has not been called yet.
IdleInv ==
    [pc |-> "idle", type |-> "none", triggerId |-> 0, payload |-> << >>,
     sessionId |-> 0, aborted |-> 0, wasInterrupted |-> FALSE, userMsg |-> 0,
     context |-> {}, response |-> << >>]

Exited == {"done", "failed"}
\* Awaiting one of the engine's calls: session.abort, session.create, session.prompt.
EngineCalls == {"abort", "create", "prompt"}

\* Slots are taken in order: i is the next invocation to be called.
NextSlot(i) == /\ inv[i].pc = "idle"
               /\ \A j \in Inv : j < i => inv[j].pc # "idle"

\* A mutant of saveUserMessage: the user Message is not stored.
saveUserMessage_Skip(conv, trigger, id, now) == conv

\* invoke step 2: "Save user message to conversation buffer (if message trigger)"
saveUserMessage(conv, trigger, id, now) ==
    IF trigger.type = "message"
    THEN appendConversation(conv, UserMessage(id, trigger.payload, now))
    ELSE conv

\* buildContext: the Messages of recentConversation, which buildPrompt puts
\* in the prompt, by their ids.
contextOf(conv) ==
    LET rc == getRecentConversation(conv, RECENT_LIMIT)
    IN  {rc[k].id : k \in 1..Len(rc)}

\* invoke, from its call to its first awaited call (sandbox.setEnvVars):
\* buildContext on the buffer conv and the prompt, then the user message.
\* The new value of inv.
invokeCalled(i, trigger, id, conv) ==
    [inv EXCEPT ![i] = [IdleInv EXCEPT !.pc = "sandbox",
                                       !.type = trigger.type,
                                       !.triggerId = trigger.triggerId,
                                       !.payload = trigger.payload,
                                       !.context = contextOf(conv),
                                       !.userMsg = IF trigger.type = "message" THEN id ELSE 0]]

\* session.prompt is called with the prompt of invocation i: the Messages of
\* its context and its own user Message are given to the session.
givenAtPrompt(i) ==
    given \cup inv[i].context \cup (IF inv[i].userMsg # 0 THEN {inv[i].userMsg} ELSE {})

\* invoke throws while it builds the context (a failing read of the store).
invokeThrown(i, trigger) ==
    [inv EXCEPT ![i] = [IdleInv EXCEPT !.pc = "failed",
                                       !.type = trigger.type,
                                       !.triggerId = trigger.triggerId,
                                       !.payload = trigger.payload]]

\* The line alarm() logs when it fires a reminder, with what identifies the
\* occurrence fired: the reminder, its time, and the now of the alarm.
FiredEntry(reminder, time, now) ==
    [id |-> reminder.id, createdAt |-> reminder.createdAt,
     oneShot |-> isOneShot(reminder), time |-> time, now |-> now]

\* The reminders of the snapshot from index idx on that are in the fire
\* window: those whose invoke alarm() calls.
DueFrom(snapshot, idx, now) ==
    {k \in idx..Len(snapshot) : isDue(reminderTime(snapshot[k], clock), now)}

\* The lines alarm() logs for the reminders of these indices of the snapshot.
firedEntries(snapshot, indices, now) ==
    [e \in 1..Len(indices) |->
        FiredEntry(snapshot[indices[e]], reminderTime(snapshot[indices[e]], clock), now)]

\* alarm() runs its loop from index idx: to the next reminder it fires whose
\* invoke runs up to its first await, or to the end of the loop and through
\* scheduleNextAlarm.  An invoke that throws in buildContext is caught and
\* leaves no invocation behind.  `called` are the invocations and `conv` is
\* the conversation buffer as the loop finds them.
AlarmLoopRuns(snapshot, idx, now, called, conv) ==
    \E throwing \in SUBSET DueFrom(snapshot, idx, now) :
      \E run \in {alarmLoop(reminders, snapshot, idx, now, clock, throwing)} :
        /\ reminders' = run.rows
        /\ missed' = missed \o run.missed
        /\ alarmNow' = now
        /\ IF run.fire = 0
           THEN /\ throwing = {} \/ Len(fired) + Len(run.thrown) <= MaxDispatch
                /\ alarmAt' = scheduleNextAlarm(run.rows, clock)
                /\ alarmPc' = "idle"
                /\ alarmReminders' = << >>
                /\ alarmIdx' = 0
                /\ alarmInv' = 0
                /\ inv' = called
                /\ conversation' = conv
                /\ fired' = fired \o firedEntries(snapshot, run.thrown, now)
           ELSE \E i \in Inv :
                  /\ called[i].pc = "idle"
                  /\ \A j \in 1..(i - 1) : called[j].pc # "idle"
                  /\ Len(fired) + Len(run.thrown) < MaxDispatch
                  /\ inv' = [called EXCEPT
                               ![i] = invokeCalled(i, AlarmTrigger(snapshot[run.fire]),
                                                   uuid + 1, conv)[i]]
                  /\ conversation' = saveUserMessage(conv, AlarmTrigger(snapshot[run.fire]),
                                                     uuid + 1, clock)
                  /\ fired' = fired \o firedEntries(snapshot, run.thrown \o <<run.fire>>, now)
                  /\ alarmPc' = "await"
                  /\ alarmReminders' = snapshot
                  /\ alarmIdx' = run.fire
                  /\ alarmInv' = i
                  /\ alarmAt' = IF alarmPc = "idle" THEN 0 ELSE alarmAt

\* invoke returns or throws in this step and leaves the invocations as
\* `exited` and the conversation buffer as `conv`.  chat() hands the outcome
\* to its caller.  alarm() awaits the invoke inside its loop
\* (`try { await this.invoke(...) } catch`), so it goes on in the turn in
\* which the invoke ends: the catch, the next reminders of its snapshot, and
\* scheduleNextAlarm() after the last.  The slot of an invoke that alarm()
\* awaited is free again.
InvokeEnds(i, exited, conv) ==
    IF alarmPc = "await" /\ alarmInv = i
    THEN AlarmLoopRuns(alarmReminders, alarmIdx + 1, alarmNow,
                       [exited EXCEPT ![i] = IdleInv], conv)
    ELSE /\ inv' = exited
         /\ conversation' = conv
         /\ UNCHANGED <<reminders, alarmAt, alarmVars>>

\* ------------------------------------------------- the uplink's sockets
Sockets == 1..MaxSockets

\* The socket a connection attempt is opening: the bridge has seen it open,
\* the orchestrator has not got it from wsConnect yet.
Handshaking == {ws \in Sockets : sockets[ws].bridge # "none" /\ sockets[ws].orch = "none"}
\* The sockets no connection attempt has used.
UnusedSockets == {ws \in Sockets : sockets[ws].bridge = "none"}

\* if (this.mcpBridgeWs && this.mcpBridgeWs.readyState === WebSocket.OPEN)
UplinkIsOpen == mcpBridgeSocket # 0 /\ sockets[mcpBridgeSocket].orch = "open"

\* connectToMcpBridge from the return of wsConnect with the socket ws:
\* ws.accept(), the listeners, `this.mcpBridgeWs = ws`, and the finally.
connected(ws) ==
    /\ sockets' = [sockets EXCEPT ![ws].orch = "open"]
    /\ mcpBridgeSocket' = ws
    /\ mcpBridgeConnecting' = FALSE

\* The sockets after wsConnect has thrown or answered without a WebSocket:
\* a socket the bridge has seen open never reaches the orchestrator.
lostInHandshake ==
    [ws \in Sockets |-> IF ws \in Handshaking THEN [sockets[ws] EXCEPT !.orch = "lost"]
                                                ELSE sockets[ws]]

\* connectToMcpBridge when wsConnect throws or answers without a WebSocket:
\* the catch logs, the finally clears mcpBridgeConnecting, and
\* this.mcpBridgeWs is left as it was.
connectFailed ==
    /\ sockets' = lostInHandshake
    /\ mcpBridgeConnecting' = FALSE
    /\ UNCHANGED mcpBridgeSocket

ChatTrigger(payload) == [type |-> "message", triggerId |-> 0, payload |-> payload]

\* chat(message): invoke({type: 'message', payload: message}) up to its first await.
Chat(i) ==
    /\ NextSlot(i)
    /\ \E payload \in Payloads :
         /\ inv' = invokeCalled(i, ChatTrigger(payload), uuid + 1, conversation)
         /\ conversation' = saveUserMessage(conversation, ChatTrigger(payload), uuid + 1, clock)
    /\ uuid' = uuid + 1
    /\ UNCHANGED <<clock, reminders, alarmAt>>
    /\ UNCHANGED <<uplinkVars, sessionVars, alarmVars, otherVars, toolVars>>

\* chat(message) whose invoke throws in buildContext: nothing is stored.
ChatContextFails(i) ==
    /\ NextSlot(i)
    /\ \E payload \in Payloads : inv' = invokeThrown(i, ChatTrigger(payload))
    /\ UNCHANGED <<clock, uuid, storeVars, uplinkVars, sessionVars, alarmVars, otherVars, toolVars>>

\* resetConversation(): clearConversation, whatever the invocations are doing.
OrchestratorResetConversation ==
    /\ conversation # << >>
    /\ conversation' = clearConversation(conversation)
    /\ UNCHANGED <<clock, uuid, reminders, alarmAt, uplinkVars, sessionVars, inv, alarmVars,
                   otherVars, toolVars>>

\* sandbox.setEnvVars and waitForSandboxReady return; then connectToMcpBridge
\* runs up to its first await, or returns at once when the uplink is open.
SandboxReady(i) ==
    /\ inv[i].pc = "sandbox"
    /\ IF UplinkIsOpen
       THEN /\ inv' = [inv EXCEPT ![i].pc = "client"]
            /\ UNCHANGED mcpBridgeConnecting
       ELSE IF mcpBridgeConnecting
       THEN /\ inv' = [inv EXCEPT ![i].pc = "uplinkwait"]
            /\ UNCHANGED mcpBridgeConnecting
       ELSE /\ inv' = [inv EXCEPT ![i].pc = "uplink"]
            /\ mcpBridgeConnecting' = TRUE
    /\ UNCHANGED <<clock, uuid, storeVars, mcpBridgeSocket, sessionVars, alarmVars, otherVars, toolVars>>

\* sandbox.setEnvVars throws, or the sandbox is not ready after 30 attempts.
SandboxFails(i) ==
    /\ inv[i].pc = "sandbox"
    /\ InvokeEnds(i, [inv EXCEPT ![i].pc = "failed"], conversation)
    /\ UNCHANGED <<clock, uuid, uplinkVars, sessionVars, otherVars, toolVars>>

\* connectToMcpBridge: wsConnect answered with the WebSocket that the bridge
\* has seen open.
UplinkOpened(i) ==
    /\ inv[i].pc = "uplink"
    /\ \E ws \in Handshaking : connected(ws)
    /\ inv' = [inv EXCEPT ![i].pc = "client"]
    /\ UNCHANGED <<clock, uuid, storeVars, sessionVars, alarmVars, toolVars, rpcLog, rpcAwaiting,
                   journal, doConnection, pendingRequests, bridgeRequests, wire, handlerErrors,
                   agentVars, callVars, gateVars>>

\* connectToMcpBridge: wsConnect throws or answers without a WebSocket.
UplinkFails(i) ==
    /\ inv[i].pc = "uplink"
    /\ connectFailed
    /\ InvokeEnds(i, [inv EXCEPT ![i].pc = "failed"], conversation)
    /\ UNCHANGED <<clock, uuid, sessionVars, toolVars, rpcLog, rpcAwaiting,
                   journal, doConnection, pendingRequests, bridgeRequests, wire, handlerErrors,
                   agentVars, callVars, gateVars>>

\* connectToMcpBridge of a caller that waited for another's attempt: it
\* returns once mcpBridgeConnecting is false.
UplinkWaited(i) ==
    /\ inv[i].pc = "uplinkwait"
    /\ ~mcpBridgeConnecting
    /\ inv' = [inv EXCEPT ![i].pc = "client"]
    /\ UNCHANGED <<clock, uuid, storeVars, uplinkVars, sessionVars, alarmVars, otherVars, toolVars>>

\* createOpencode returns: "If we're already processing, abort and reuse the
\* session"; otherwise session.create is called.
ClientCreated(i) ==
    /\ inv[i].pc = "client"
    /\ IF isProcessing /\ currentSessionId # 0
       THEN inv' = [inv EXCEPT ![i].pc = "abort", ![i].aborted = currentSessionId]
       ELSE inv' = [inv EXCEPT ![i].pc = "create"]
    /\ UNCHANGED <<clock, uuid, storeVars, uplinkVars, sessionVars, alarmVars, otherVars, toolVars>>

\* createOpencode throws.
ClientFails(i) ==
    /\ inv[i].pc = "client"
    /\ InvokeEnds(i, [inv EXCEPT ![i].pc = "failed"], conversation)
    /\ UNCHANGED <<clock, uuid, uplinkVars, sessionVars, otherVars, toolVars>>

\* A mutant of AbortReturns: the prompt goes to the id that was aborted only
\* when that is still the current one, but a failed abort is rethrown.
AbortReturns_Rethrow(i, ok) ==
    /\ inv[i].pc = "abort"
    /\ IF ok
       THEN /\ inv' = [inv EXCEPT ![i].pc = "prompt", ![i].wasInterrupted = TRUE,
                                  ![i].sessionId = currentSessionId]
            /\ isProcessing' = TRUE
            /\ given' = givenAtPrompt(i)
            /\ UNCHANGED <<storeVars, alarmVars>>
       ELSE /\ InvokeEnds(i, [inv EXCEPT ![i].pc = "failed"], conversation)
            /\ UNCHANGED <<isProcessing, given>>
    /\ UNCHANGED <<clock, uuid, uplinkVars, currentSessionId, nextSession, otherVars, toolVars>>

\* session.abort returns (ok) or throws (~ok).  "Reuse session only if we just
\* interrupted it, otherwise create fresh": the reused id is this.currentSessionId
\* as it is now; isProcessing = true and session.prompt is called.
AbortReturns(i, ok) ==
    /\ inv[i].pc = "abort"
    /\ IF ok /\ currentSessionId # 0
       THEN /\ inv' = [inv EXCEPT ![i].pc = "prompt", ![i].wasInterrupted = TRUE,
                                  ![i].sessionId = currentSessionId]
            /\ isProcessing' = TRUE
            /\ given' = givenAtPrompt(i)
       ELSE /\ inv' = [inv EXCEPT ![i].pc = "create", ![i].wasInterrupted = ok]
            /\ UNCHANGED <<isProcessing, given>>
    /\ UNCHANGED <<clock, uuid, storeVars, uplinkVars, currentSessionId, nextSession, alarmVars, otherVars, toolVars>>

\* session.create returns a session: currentSessionId = its id,
\* isProcessing = true and session.prompt is called.
SessionCreated(i) ==
    /\ inv[i].pc = "create"
    /\ nextSession' = nextSession + 1
    /\ inv' = [inv EXCEPT ![i].pc = "prompt", ![i].sessionId = nextSession + 1]
    /\ currentSessionId' = nextSession + 1
    /\ isProcessing' = TRUE
    /\ given' = givenAtPrompt(i)
    /\ UNCHANGED <<clock, uuid, storeVars, uplinkVars, alarmVars, otherVars, toolVars>>

\* session.create throws or returns no data: 'Failed to create OpenCode session'.
SessionCreateFails(i) ==
    /\ inv[i].pc = "create"
    /\ InvokeEnds(i, [inv EXCEPT ![i].pc = "failed"], conversation)
    /\ UNCHANGED <<clock, uuid, uplinkVars, sessionVars, otherVars, toolVars>>

\* A mutant of saveAssistantMessage: the test is on response, not response.trim().
saveAssistantMessage_NoTrim(conv, response, id, now, type) ==
    IF response # << >>
    THEN appendConversation(conv, AssistantMessage(id, response, now, type))
    ELSE conv

\* invoke step 4: if (response.trim()) appendConversation(assistantMsg)
saveAssistantMessage(conv, response, id, now, type) ==
    IF trim(response) # << >>
    THEN appendConversation(conv, AssistantMessage(id, response, now, type))
    ELSE conv

\* session.prompt returns: finally isProcessing = false; the response is
\* extracted and stored, and invoke returns it.
PromptReturnsOf(i, answers) ==
    /\ inv[i].pc = "prompt"
    /\ isProcessing' = FALSE
    /\ \E parts \in answers :
         \E conv \in {saveAssistantMessage(conversation, extractResponse(parts),
                                            uuid + 1, clock, inv[i].type)} :
            /\ InvokeEnds(i, [inv EXCEPT ![i].pc = "done",
                                         ![i].response = extractResponse(parts)], conv)
            /\ uuid' = IF conv = conversation THEN uuid ELSE uuid + 1
    /\ UNCHANGED <<clock, uplinkVars, currentSessionId, nextSession, given, otherVars, toolVars>>

\* A mutant of PromptThrows: without the finally, isProcessing stays as it is.
PromptThrows_NoFinally(i) ==
    /\ inv[i].pc = "prompt"
    /\ InvokeEnds(i, [inv EXCEPT ![i].pc = "failed"], conversation)
    /\ UNCHANGED <<clock, uuid, uplinkVars, sessionVars, otherVars, toolVars>>

\* session.prompt throws: finally isProcessing = false, and invoke throws.
PromptThrows(i) ==
    /\ inv[i].pc = "prompt"
    /\ isProcessing' = FALSE
    /\ InvokeEnds(i, [inv EXCEPT ![i].pc = "failed"], conversation)
    /\ UNCHANGED <<clock, uuid, uplinkVars, currentSessionId, nextSession, given, otherVars,
                   toolVars>>

PromptReturns(i) == PromptReturnsOf(i, PromptParts)

\* The steps of an invocation after its call, with the engine answering its
\* prompt with one of these answers.
InvokeStepOf(i, answers) ==
    \/ SandboxReady(i)
    \/ SandboxFails(i)
    \/ UplinkOpened(i)
    \/ UplinkFails(i)
    \/ UplinkWaited(i)
    \/ ClientCreated(i)
    \/ ClientFails(i)
    \/ AbortReturns(i, TRUE)
    \/ AbortReturns(i, FALSE)
    \/ SessionCreated(i)
    \/ SessionCreateFails(i)
    \/ PromptReturnsOf(i, answers)
    \/ PromptThrows(i)

\* The steps of invoke after its call.
InvokeStep(i) == InvokeStepOf(i, PromptParts)

\* ------------------------------------------------------------- alarm
\* The runtime delivers the installed alarm, at or after its time, and calls
\* alarm(): const now, const reminders, and the loop (init() awaits nothing
\* that lets another event in).  No alarm() runs while another does, and the
\* alarm delivered is no longer installed.
AlarmFires ==
    /\ alarmPc = "idle"
    /\ alarmAt # 0
    /\ clock >= alarmAt
    /\ AlarmLoopRuns(getAllReminders(reminders), 1, clock, inv, conversation)
    /\ UNCHANGED <<clock, uuid, uplinkVars, sessionVars, toolVars, otherVars>>

\* ------------------------------------------------------------- tools
CronReminder(id, cron, now) ==
    [id |-> id, description |-> Description, payload |-> Payload,
     cronExpression |-> cron, scheduledTime |-> 0, createdAt |-> now]

OnceReminder(id, scheduledTime, now) ==
    [id |-> id, description |-> Description, payload |-> Payload,
     cronExpression |-> << >>, scheduledTime |-> scheduledTime, createdAt |-> now]

\* The result of a tools/call as the uplink carries it: the tool, the id and
\* the datetime it was called with (0 when it takes none) and the text returned.
ToolResult(tool, id, datetime, text) ==
    [tool |-> tool, id |-> id, datetime |-> datetime, text |-> text]

\* No tools/call has been answered yet.
NoResult == ToolResult("none", 0, 0, "none")

\* The argument summary of save_conversation_summary.
SummaryText == <<"s">>

\* const summaryEntry = { id: crypto.randomUUID(), timestamp: Date.now(), summary, ... }
SummaryEntry(id, now) == [id |-> id, timestamp |-> now, summary |-> SummaryText]

\* ------------------------------------------------- the MCP dispatcher
\* TOOL_DEFINITIONS: the names of some of the registered tools.
RegisteredTools == {"journal_write", "schedule_recurring", "schedule_once", "cancel_reminder",
                    "save_conversation_summary"}
\* The methods of the requests: those of the switch and one it does not know.
RpcMethods == {"initialize", "initialized", "ping", "tools/list", "tools/call",
               "resources/list"}
\* What the call a tool makes outside its handler does: env.AI.run while a
\* journal_write is handled returns the embedding or throws, and so does the
\* sql.exec of the DELETE while a save_conversation_summary is handled.
ToolOutcomes == {"returns", "throws"}

\* The arguments of a tools/call: the id of a reminder (0 when the tool takes
\* none), a cron expression, a datetime, and whether there is a summary.
Arguments(id, cron, datetime, summary) ==
    [id |-> id, cron |-> cron, datetime |-> datetime, summary |-> summary]
NoArguments == Arguments(0, << >>, 0, FALSE)

\* A request of this method, without params.
JsonRpcRequest(method) ==
    [id |-> 1, method |-> method, params |-> FALSE, name |-> "", arguments |-> FALSE,
     args |-> NoArguments, outcome |-> "returns"]
\* A tools/call of this tool with these arguments, handled while env.AI.run
\* does this.
ToolsCall(name, args, outcome) ==
    [id |-> 1, method |-> "tools/call", params |-> TRUE, name |-> name, arguments |-> TRUE,
     args |-> args, outcome |-> outcome]
\* A tools/call whose params name the tool and have no arguments.
ToolsCallBare(name) ==
    [id |-> 1, method |-> "tools/call", params |-> TRUE, name |-> name, arguments |-> FALSE,
     args |-> NoArguments, outcome |-> "returns"]

\* The requests: every method without params, journal_write with either
\* outcome of the embedder, a tool that is not registered, a tool called
\* without arguments, and a reminder scheduled and cancelled.
JsonRpcRequests ==
    {JsonRpcRequest(m) : m \in RpcMethods}
    \cup {ToolsCall("journal_write", NoArguments, o) : o \in ToolOutcomes}
    \cup {ToolsCall("no_such_tool", NoArguments, "returns"),
          ToolsCallBare("cancel_reminder"),
          ToolsCall("schedule_once", Arguments(MaxReminders, << >>, Tick, FALSE), "returns"),
          ToolsCall("cancel_reminder", Arguments(MaxReminders, << >>, 0, FALSE), "returns")}

\* A value returned or an Error thrown.
Returned(text) == [thrown |-> FALSE, text |-> text]
Thrown(message) == [thrown |-> TRUE, text |-> message]

\* jsonRpcResult with a tool result { content: [{type: 'text', text}], isError }
jsonRpcToolResult(id, text, isError) ==
    [id |-> id, kind |-> "result", code |-> 0, text |-> text, isError |-> isError]
\* jsonRpcResult with any other result
jsonRpcResult(id, text) ==
    [id |-> id, kind |-> "result", code |-> 0, text |-> <<text>>, isError |-> FALSE]
\* jsonRpcError
jsonRpcError(id, code, message) ==
    [id |-> id, kind |-> "error", code |-> code, text |-> <<message>>, isError |-> FALSE]
\* handleJsonRpcRequest returns null: a notification has no response.
NoResponse == [id |-> 0, kind |-> "none", code |-> 0, text |-> << >>, isError |-> FALSE]
\* The promise of handleJsonRpcRequest rejects: the message handler of the
\* uplink logs the error and sends nothing.
Rejected(message) ==
    [id |-> 0, kind |-> "rejected", code |-> 0, text |-> <<message>>, isError |-> FALSE]

\* getEmbedding: the embedding of the AI binding, or the Error of a
\* binding that throws or answers without data.
getEmbedding(embedder) ==
    IF embedder = "throws" THEN Thrown("Failed to generate embedding")
    ELSE Returned("embedding")

\* INSERT INTO journal
saveJournalEntry(rows, entry) == Append(rows, entry)
JournalEntry(id, embedded) == [id |-> id, topic |-> "t", content |-> "c", embedded |-> embedded]

\* What the tools read and write: the tables of the object's storage, its
\* alarm, and the uuids drawn for the rows stored.
Store ==
    [conversation |-> conversation, reminders |-> reminders, alarmAt |-> alarmAt,
     summaries |-> summaries, journal |-> journal, uuid |-> uuid]

\* A tool returns its text, or throws, and leaves the store so.
ToolReturns(store, text) == [thrown |-> FALSE, text |-> text, store |-> store]
ToolThrows(store, message) == [thrown |-> TRUE, text |-> message, store |-> store]

\* The end of schedule_recurring and of schedule_once, with the rows
\* saveReminder has left: scheduleAlarm(), then the text.
scheduled(store, rows, now, text) ==
    ToolReturns([store EXCEPT !.reminders = rows, !.alarmAt = scheduleNextAlarm(rows, now)],
                text)

\* schedule_recurring: saveReminder, then scheduleAlarm(), then the text.
scheduleRecurring(store, args, now) ==
    scheduled(store, saveReminder(store.reminders, CronReminder(args.id, args.cron, now)),
              now, "Scheduled recurring reminder")

\* A mutant of schedule_once: the reminder is stored and the alarm is left as
\* it was.
scheduleOnce_NoReschedule(store, args, now) ==
    IF args.datetime <= now THEN ToolReturns(store, "Cannot schedule in the past")
    ELSE ToolReturns([store EXCEPT !.reminders =
                         saveReminder(store.reminders, OnceReminder(args.id, args.datetime, now))],
                     "Scheduled one-time reminder")

\* schedule_once with a datetime that parses: a datetime that is not after
\* Date.now() is answered "Cannot schedule in the past" and nothing is
\* stored; otherwise saveReminder, then scheduleAlarm(), then the text.
scheduleOnce(store, args, now) ==
    IF args.datetime <= now THEN ToolReturns(store, "Cannot schedule in the past")
    ELSE scheduled(store,
                   saveReminder(store.reminders, OnceReminder(args.id, args.datetime, now)),
                   now, "Scheduled one-time reminder")

\* save_conversation_summary: saveSummary, then clearConversation, then the
\* text, with no transaction around the two. Without a summary the INSERT of
\* saveSummary violates summary TEXT NOT NULL and throws before any row is
\* written; the uuid drawn for the entry is not stored anywhere. When the
\* sql.exec of clearConversation throws, the row saveSummary has written
\* stays and so does every message.
saveConversationSummary(store, args, outcome, now) ==
    LET saved == [store EXCEPT
                     !.summaries = saveSummary(store.summaries,
                                               SummaryEntry(store.uuid + 1, now)),
                     !.uuid = store.uuid + 1]
    IN  IF ~args.summary THEN ToolThrows(store, "NOT NULL constraint failed")
        ELSE IF outcome = "throws" THEN ToolThrows(saved, "DELETE FROM conversation failed")
        ELSE ToolReturns([saved EXCEPT
                             !.conversation = clearConversation(store.conversation)],
                         "Conversation summary saved. Buffer cleared.")

\* journal_write from the answer of getEmbedding: the Error of the embedder
\* escapes, otherwise saveJournalEntry and the text.
journalWrite(store, outcome) ==
    IF getEmbedding(outcome).thrown THEN ToolThrows(store, getEmbedding(outcome).text)
    ELSE ToolReturns([store EXCEPT !.journal =
                         saveJournalEntry(store.journal,
                                          JournalEntry(Len(store.journal) + 1, TRUE))],
                     "Journal entry saved")

\* executeToolInternal: the handler of the tool, `throw new Error("Unknown
\* tool: name")` for a name the switch does not have.
executeToolInternal(store, name, args, outcome, now) ==
    CASE name = "journal_write" -> journalWrite(store, outcome)
      [] name = "schedule_recurring" -> scheduleRecurring(store, args, now)
      [] name = "schedule_once" -> scheduleOnce(store, args, now)
      [] name = "cancel_reminder" ->
            ToolReturns([store EXCEPT !.reminders = deleteReminder(store.reminders, args.id)],
                        "Cancelled reminder")
      [] name = "save_conversation_summary" -> saveConversationSummary(store, args, outcome,
                                                                         now)
      [] OTHER -> ToolThrows(store, "Unknown tool")

\* executeTool: logs `JSON.stringify(args).slice(0, 200)`, which throws a
\* TypeError when the params have no arguments, then calls the handler and
\* rethrows what it throws.
executeTool(store, name, arguments, args, outcome, now) ==
    IF ~arguments THEN ToolThrows(store, "Cannot read properties of undefined")
    ELSE executeToolInternal(store, name, args, outcome, now)

\* A response of handleJsonRpcRequest and the store it leaves.
Handled(response, store) == [response |-> response, store |-> store]

\* A mutant of handleToolCall's answer: no catch, the error of the handler
\* escapes.
toolCallAnswer_NoCatch(id, result) ==
    IF result.thrown THEN Handled(Rejected(result.text), result.store)
    ELSE Handled(jsonRpcToolResult(id, <<result.text>>, FALSE), result.store)

\* handleToolCall from the end of executeTool: the text of the tool as a
\* result, and in the catch `Error: ${message}` as a result with isError: true.
toolCallAnswer(id, result) ==
    IF result.thrown
    THEN Handled(jsonRpcToolResult(id, <<"Error: ", result.text>>, TRUE), result.store)
    ELSE Handled(jsonRpcToolResult(id, <<result.text>>, FALSE), result.store)

\* handleToolCall: executeTool in a try, and the answer.
handleToolCall(store, id, name, arguments, args, outcome, now) ==
    toolCallAnswer(id, executeTool(store, name, arguments, args, outcome, now))

\* handleJsonRpcRequest: the switch over the method. handleToolCall
\* destructures params before its try, and its promise is returned without
\* await: a tools/call without params rejects past both catch blocks.
handleJsonRpcRequest(store, request, now) ==
    CASE request.method = "initialize" -> Handled(jsonRpcResult(request.id, "serverInfo"), store)
      [] request.method = "initialized" -> Handled(NoResponse, store)
      [] request.method = "ping" -> Handled(jsonRpcResult(request.id, "{}"), store)
      [] request.method = "tools/list" -> Handled(jsonRpcResult(request.id, "tools"), store)
      [] request.method = "tools/call" ->
            IF request.params
            THEN handleToolCall(store, request.id, request.name, request.arguments,
                                request.args, request.outcome, now)
            ELSE Handled(Rejected("Cannot destructure property 'name'"), store)
      [] OTHER -> Handled(jsonRpcError(request.id, -32601, "Method not found"), store)

\* The handling of this request awaits an external call: a journal_write
\* awaits env.AI.run in getEmbedding, and the Durable Object handles other
\* events until it answers.
awaitsEmbedding(request) ==
    /\ request.method = "tools/call"
    /\ request.params
    /\ request.arguments
    /\ request.name = "journal_write"

\* The text of the tool result that answers a tools/call.
toolText(response) == IF response.isError THEN "Error" ELSE Head(response.text)

\* What the handling of a request writes.
handledVars == <<conversation, reminders, alarmAt, summaries, absorbedTo, journal, uuid,
                 toolResult>>
\* What neither the handling of a request nor the uplink touches.
aroundVars == <<clock, uplinkVars, sessionVars, inv, alarmVars, agentVars, callVars, gateVars>>

\* A message that some engine session has been given in a prompt: one that
\* buildContext read for the prompt, or the invocation's own user message.
Summarised(message) == message.id \in given

\* The messages a summary absorbs: those of the buffer that an engine
\* session was given, in the order of the buffer.
toSummarize(conv) == SelectSeq(conv, Summarised)

\* toTimestamp of a summary: the timestamp of the last message it absorbs,
\* Date.now() when it absorbs none.
toTimestamp(absorbed, now) ==
    IF absorbed = << >> THEN now ELSE absorbed[Len(absorbed)].timestamp

\* handleJsonRpcRequest has run on a request, to its end: the tables, the
\* alarm and the uuids are as the handler of the tool leaves them.
Handles(request, handled) ==
    /\ conversation' = handled.store.conversation
    /\ reminders' = handled.store.reminders
    /\ alarmAt' = handled.store.alarmAt
    /\ summaries' = handled.store.summaries
    /\ absorbedTo' = IF Len(handled.store.summaries) > Len(summaries)
                     THEN Append(absorbedTo, toTimestamp(toSummarize(conversation), clock))
                     ELSE absorbedTo
    /\ journal' = handled.store.journal
    /\ uuid' = handled.store.uuid
    /\ toolResult' = IF request.method = "tools/call" /\ request.params
                     THEN ToolResult(request.name, request.args.id, request.args.datetime,
                                     toolText(handled.response))
                     ELSE toolResult

\* A handling that has stopped at its await of getEmbedding: the socket and
\* the requestId of its frame (0 for a direct call) and the request.
Awaiting(ws, requestId, request) ==
    [socket |-> ws, requestId |-> requestId, request |-> request]

\* handleJsonRpcDirect called with a request: the request is handled and the
\* response returned; the handling of a journal_write stops at its await of
\* getEmbedding.
HandleJsonRpc ==
    /\ Len(rpcLog) + Len(rpcAwaiting) < MaxRpc
    /\ \E request \in JsonRpcRequests :
         IF awaitsEmbedding(request)
         THEN /\ rpcAwaiting' = Append(rpcAwaiting, Awaiting(0, 0, request))
              /\ UNCHANGED <<rpcLog, handledVars>>
         ELSE /\ \E handled \in {handleJsonRpcRequest(Store, request, clock)} :
                   /\ Handles(request, handled)
                   /\ rpcLog' = Append(rpcLog, [request |-> request,
                                                 response |-> handled.response])
              /\ UNCHANGED rpcAwaiting
    /\ UNCHANGED <<aroundVars, bridgeVars>>

\* ------------------------------------------- the uplink and the bridge
\* The frames of the uplink: {requestId, request} to the orchestrator and
\* {requestId, response} to the bridge, which reads the requestId of it.
RequestFrame(ws, requestId, request) ==
    [to |-> "do", socket |-> ws, requestId |-> requestId, request |-> request]
ResponseFrame(ws, requestId) == [to |-> "bridge", socket |-> ws, requestId |-> requestId]

\* The end of the 'message' listener: ws.send({requestId, response}) on the
\* socket the frame came on. When the handling has rejected, or the socket
\* has closed and ws.send throws, the catch logs the error and nothing is
\* sent. `frames` are the other frames in flight.
Sends(ws, requestId, response, frames) ==
    IF response.kind = "rejected" \/ sockets[ws].orch # "open"
    THEN /\ wire' = frames
         /\ handlerErrors' = handlerErrors \cup {requestId}
    ELSE /\ wire' = frames \cup {ResponseFrame(ws, requestId)}
         /\ UNCHANGED handlerErrors

\* The 'message' listener of a socket on the frame {requestId, request}: the
\* request goes to handleJsonRpcDirect. When the handling calls nothing
\* outside, the tool has run and the response is sent back on the same
\* socket in the same turn; when it awaits an external call (journal_write
\* awaits the embedder) the Durable Object handles other events until the
\* call answers.
Listens(ws, requestId, request, frames) ==
    /\ sockets[ws].orch = "open"
    /\ IF awaitsEmbedding(request)
       THEN /\ rpcAwaiting' = Append(rpcAwaiting, Awaiting(ws, requestId, request))
            /\ wire' = frames
            /\ UNCHANGED <<handledVars, handlerErrors>>
       ELSE /\ \E handled \in {handleJsonRpcRequest(Store, request, clock)} :
                 /\ Handles(request, handled)
                 /\ Sends(ws, requestId, handled.response, frames)
            /\ UNCHANGED rpcAwaiting
    /\ UNCHANGED <<aroundVars, rpcLog, sockets, doConnection, pendingRequests, bridgeRequests>>

\* env.AI.run answers or throws: the journal_write that awaited it stores
\* its entry, or fails, and in the same turn its response is returned to the
\* caller of handleJsonRpcDirect, or sent back on the socket of its frame.
EmbeddingArrives ==
    /\ \E k \in 1..Len(rpcAwaiting) :
         \E handled \in {handleJsonRpcRequest(Store, rpcAwaiting[k].request, clock)} :
             /\ Handles(rpcAwaiting[k].request, handled)
             /\ rpcAwaiting' = SubSeq(rpcAwaiting, 1, k - 1)
                                 \o SubSeq(rpcAwaiting, k + 1, Len(rpcAwaiting))
             /\ IF rpcAwaiting[k].socket = 0
                THEN /\ rpcLog' = Append(rpcLog, [request |-> rpcAwaiting[k].request,
                                                  response |-> handled.response])
                     /\ UNCHANGED <<wire, handlerErrors>>
                ELSE /\ Sends(rpcAwaiting[k].socket, rpcAwaiting[k].requestId,
                              handled.response, wire)
                     /\ UNCHANGED rpcLog
    /\ UNCHANGED <<aroundVars, sockets, doConnection, pendingRequests, bridgeRequests>>

\* A tools/call reaches the McpServer through the 'message' listener of a
\* socket of the uplink, which runs for every frame that arrives while that
\* socket is open, whatever the invocations are doing and whether or not
\* this.mcpBridgeWs still refers to the socket. Here the socket delivers the
\* frame of a tools/call, with a requestId that no request pending at the
\* bridge has.
ToolCall(request) == \E ws \in Sockets : Listens(ws, 0, request, wire)

\* tools/call schedule_recurring with an id of ids and a cron of crons.
ScheduleRecurringOf(ids, crons) ==
    \E id \in ids, cron \in crons :
        ToolCall(ToolsCall("schedule_recurring", Arguments(id, cron, 0, FALSE), "returns"))

ScheduleRecurring == ScheduleRecurringOf(RecurringIds, CronInputs)

\* tools/call schedule_once with an id of ids and a datetime of times.
ScheduleOnceOf(ids, times) ==
    \E id \in ids, scheduledTime \in times :
        ToolCall(ToolsCall("schedule_once", Arguments(id, << >>, scheduledTime, FALSE),
                           "returns"))

ScheduleOnce == ScheduleOnceOf(OnceIds, OnceTimes)

\* tools/call cancel_reminder.
CancelReminder ==
    \E id \in ReminderIds :
        ToolCall(ToolsCall("cancel_reminder", Arguments(id, << >>, 0, FALSE), "returns"))

\* tools/call save_conversation_summary with a summary.
SaveConversationSummary ==
    /\ Len(summaries) < MaxSummaries
    /\ ToolCall(ToolsCall("save_conversation_summary", Arguments(0, << >>, 0, TRUE), "returns"))

\* tools/call save_conversation_summary without a summary: handleToolCall
\* answers with the error of saveSummary.
SaveConversationSummaryFails ==
    ToolCall(ToolsCall("save_conversation_summary", NoArguments, "returns"))

\* tools/call save_conversation_summary with a summary, and the DELETE of
\* clearConversation throws after the INSERT of saveSummary: handleToolCall
\* answers with the error.
ClearConversationFails ==
    /\ Len(summaries) < MaxSummaries
    /\ ToolCall(ToolsCall("save_conversation_summary", Arguments(0, << >>, 0, TRUE), "throws"))

\* forwardToDO: the timeout of a forwarded request.
REQUEST_TIMEOUT == 30000

\* The replies of the bridge to its HTTP callers.
NoReply == [status |-> 0, code |-> 0, message |-> "none"]
HttpReply(status, code, message) == [status |-> status, code |-> code, message |-> message]

\* httpServer.fetch: the catch of the POST branch answers a rejection of
\* forwardToDO with code -32603 and the message of the error, status 500.
RejectedReply(message) == HttpReply(500, -32603, message)
\* A reply without a body.
EmptyReply(status) == HttpReply(status, 0, "")

\* How the promise of forwardToDO of a request has settled: not yet, with the
\* response, or rejected with a message.
Pending == "pending"
Resolved == "response"
\* httpServer.fetch: the reply to the HTTP caller once forwardToDO has
\* settled. POST passes the response on (200) and answers a rejection with
\* -32603; DELETE answers 204 and, in its catch, 500, both without a body.
replyOf(method, settled) ==
    IF settled = Pending THEN NoReply
    ELSE IF method = "DELETE"
         THEN IF settled = Resolved THEN EmptyReply(204) ELSE EmptyReply(500)
    ELSE IF settled = Resolved THEN HttpReply(200, 0, "response")
    ELSE RejectedReply(settled)

\* An HTTP request the bridge has received: the socket it was forwarded on
\* (0 when it was not), when, how forwardToDO settled and the reply.
BridgeRequest(method, socket, sentAt, settled, reply) ==
    [method |-> method, socket |-> socket, sentAt |-> sentAt, settled |-> settled,
     reply |-> reply]
\* The request with forwardToDO settled this way and its caller answered.
settle(request, settled) ==
    [request EXCEPT !.settled = settled, !.reply = replyOf(request.method, settled)]

\* connectToMcpBridge up to `this.mcpBridgeConnecting = true`, by a caller
\* that finds no open uplink and no attempt in progress.
UplinkConnectStarts ==
    /\ ~UplinkIsOpen
    /\ ~mcpBridgeConnecting
    /\ mcpBridgeConnecting' = TRUE
    /\ UNCHANGED <<clock, uuid, storeVars, mcpBridgeSocket, sessionVars, inv, alarmVars,
                   toolVars, gateVars, rpcLog, rpcAwaiting, journal, agentVars, callVars, bridgeVars>>

\* A mutant of websocket.open: a connection does not replace the one the
\* bridge holds.
BridgeOpen_KeepFirst ==
    /\ mcpBridgeConnecting
    /\ Handshaking = {}
    /\ \E ws \in UnusedSockets :
         /\ \A other \in UnusedSockets : ws <= other
         /\ sockets' = [sockets EXCEPT ![ws].bridge = "open"]
         /\ doConnection' = IF doConnection = 0 THEN ws ELSE doConnection
    /\ UNCHANGED <<orchestratorVars, gateVars, handlerErrors, rpcLog, rpcAwaiting, journal, agentVars, callVars, mcpBridgeSocket, pendingRequests,
                   bridgeRequests, wire>>

\* bridge, websocket.open(ws): the orchestrator's wsConnect reaches the
\* bridge, which takes the new socket for its connection to the DO.
BridgeOpen ==
    /\ mcpBridgeConnecting
    /\ Handshaking = {}
    /\ \E ws \in UnusedSockets :
         /\ \A other \in UnusedSockets : ws <= other
         /\ sockets' = [sockets EXCEPT ![ws].bridge = "open"]
         /\ doConnection' = ws
    /\ UNCHANGED <<orchestratorVars, gateVars, handlerErrors, rpcLog, rpcAwaiting, journal, agentVars, callVars, mcpBridgeSocket, pendingRequests,
                   bridgeRequests, wire>>

\* connectToMcpBridge from the return of wsConnect with a WebSocket.
UplinkConnected ==
    /\ mcpBridgeConnecting
    /\ \E ws \in Handshaking : connected(ws)
    /\ UNCHANGED <<handlerErrors, clock, uuid, storeVars, sessionVars, inv, alarmVars, toolVars, gateVars, rpcLog, rpcAwaiting, journal, agentVars, callVars,
                   doConnection, pendingRequests, bridgeRequests, wire>>

\* connectToMcpBridge when wsConnect throws, whether or not the bridge has
\* seen the socket open.
UplinkConnectFails ==
    /\ mcpBridgeConnecting
    /\ connectFailed
    /\ UNCHANGED <<clock, uuid, storeVars, sessionVars, inv, alarmVars,
                   toolVars, gateVars, rpcLog, rpcAwaiting, journal, agentVars, callVars,
                   doConnection, pendingRequests, bridgeRequests, wire, handlerErrors>>

\* The orchestrator's 'close' listener of a socket: `this.mcpBridgeWs = null`.
\* The messages in flight to the orchestrator on that socket are lost.
UplinkClosed(ws) ==
    /\ sockets[ws].orch = "open"
    /\ sockets' = [sockets EXCEPT ![ws].orch = "closed"]
    /\ mcpBridgeSocket' = 0
    /\ wire' = {m \in wire : ~(m.to = "do" /\ m.socket = ws)}
    /\ UNCHANGED <<handlerErrors, clock, uuid, storeVars, mcpBridgeConnecting, sessionVars, inv, alarmVars,
                   toolVars, gateVars, rpcLog, rpcAwaiting, journal, agentVars, callVars, doConnection, pendingRequests, bridgeRequests>>

\* The orchestrator's 'error' listener of a socket: `this.mcpBridgeWs = null`.
UplinkErrored(ws) ==
    /\ sockets[ws].orch = "open"
    /\ mcpBridgeSocket # 0
    /\ mcpBridgeSocket' = 0
    /\ UNCHANGED <<handlerErrors, clock, uuid, storeVars, mcpBridgeConnecting, sessionVars, inv, alarmVars,
                   toolVars, gateVars, rpcLog, rpcAwaiting, journal, agentVars, callVars, sockets, doConnection, pendingRequests,
                   bridgeRequests, wire>>

\* The replies after every pending request was rejected with this message.
rejectAll(requests, pending, message) ==
    [r \in 1..Len(requests) |->
        IF r \in pending THEN settle(requests[r], message)
        ELSE requests[r]]

\* A mutant of websocket.close: the pending requests are left pending.
BridgeClose_KeepPending(ws) ==
    /\ sockets[ws].bridge = "open"
    /\ sockets' = [sockets EXCEPT ![ws].bridge = "closed"]
    /\ doConnection' = IF doConnection = ws THEN 0 ELSE doConnection
    /\ wire' = {m \in wire : ~(m.to = "bridge" /\ m.socket = ws)}
    /\ UNCHANGED <<orchestratorVars, gateVars, handlerErrors, rpcLog, rpcAwaiting, journal, agentVars, callVars, mcpBridgeSocket, pendingRequests, bridgeRequests>>

\* bridge, websocket.close(ws): doConnection is cleared if it is this socket,
\* and every pending request is rejected with "DO connection closed" and
\* deleted. The messages in flight to the bridge on that socket are lost.
BridgeClose(ws) ==
    /\ sockets[ws].bridge = "open"
    /\ sockets' = [sockets EXCEPT ![ws].bridge = "closed"]
    /\ doConnection' = IF doConnection = ws THEN 0 ELSE doConnection
    /\ bridgeRequests' = rejectAll(bridgeRequests, pendingRequests, "DO connection closed")
    /\ pendingRequests' = {}
    /\ wire' = {m \in wire : ~(m.to = "bridge" /\ m.socket = ws)}
    /\ UNCHANGED <<orchestratorVars, gateVars, handlerErrors, rpcLog, rpcAwaiting, journal, agentVars, callVars, mcpBridgeSocket>>

\* forwardToDO with a connection: the request is registered under a new
\* requestId with its timeout and sent on doConnection.
forwardToDO(method, jsonRpcRequest) ==
    LET requestId == Len(bridgeRequests) + 1
    IN  /\ bridgeRequests' = Append(bridgeRequests,
               BridgeRequest(method, doConnection, clock, Pending, NoReply))
        /\ pendingRequests' = pendingRequests \cup {requestId}
        /\ wire' = wire \cup {RequestFrame(doConnection, requestId, jsonRpcRequest)}

\* bridge, httpServer.fetch POST: without a connection the reply is 503 with
\* code -32000 "DO not connected"; otherwise the request goes to forwardToDO.
HttpPostOf(bodies) ==
    /\ Len(bridgeRequests) < MaxBridgeRequests
    /\ IF doConnection = 0
       THEN /\ bridgeRequests' = Append(bridgeRequests,
                   BridgeRequest("POST", 0, clock, "not forwarded",
                                 HttpReply(503, -32000, "DO not connected")))
            /\ UNCHANGED <<pendingRequests, wire>>
       ELSE \E body \in bodies : forwardToDO("POST", body)
    /\ UNCHANGED <<orchestratorVars, gateVars, handlerErrors, rpcLog, rpcAwaiting, journal, agentVars, callVars, sockets, mcpBridgeSocket, doConnection>>

\* The bodies of the POSTs: a ping, a journal_write, a tools/call without
\* params, and a tool that stores a reminder.
PostBodies ==
    {JsonRpcRequest("ping"), JsonRpcRequest("tools/call"),
     ToolsCall("journal_write", NoArguments, "returns"),
     ToolsCall("schedule_once", Arguments(MaxReminders, << >>, MaxOnce * Tick, FALSE), "returns")}

HttpPost == HttpPostOf(PostBodies)

\* bridge, httpServer.fetch DELETE: forwardToDO({method: 'session/terminate'});
\* without a connection forwardToDO throws "DO not connected" and the catch
\* answers 500.
HttpDelete ==
    /\ Len(bridgeRequests) < MaxBridgeRequests
    /\ IF doConnection = 0
       THEN /\ bridgeRequests' = Append(bridgeRequests,
                   settle(BridgeRequest("DELETE", 0, clock, Pending, NoReply),
                          "DO not connected"))
            /\ UNCHANGED <<pendingRequests, wire>>
       ELSE forwardToDO("DELETE", JsonRpcRequest("session/terminate"))
    /\ UNCHANGED <<orchestratorVars, gateVars, handlerErrors, rpcLog, rpcAwaiting, journal, agentVars, callVars, sockets, mcpBridgeSocket, doConnection>>

\* The 'message' listener of a socket runs on a frame in flight to the
\* orchestrator on it.
UplinkMessage ==
    \E m \in wire :
        /\ m.to = "do"
        /\ Listens(m.socket, m.requestId, m.request, wire \ {m})

\* bridge, websocket.message: the response resolves the pending request of
\* its requestId, if there is one, and the HTTP caller gets it.
BridgeMessage ==
    /\ \E m \in wire :
         /\ m.to = "bridge"
         /\ sockets[m.socket].bridge = "open"
         /\ wire' = wire \ {m}
         /\ IF m.requestId \in pendingRequests
            THEN /\ pendingRequests' = pendingRequests \ {m.requestId}
                 /\ bridgeRequests' = [bridgeRequests EXCEPT
                        ![m.requestId] = settle(bridgeRequests[m.requestId], Resolved)]
            ELSE UNCHANGED <<pendingRequests, bridgeRequests>>
    /\ UNCHANGED <<orchestratorVars, gateVars, handlerErrors, rpcLog, rpcAwaiting, journal, agentVars, callVars, sockets, mcpBridgeSocket, doConnection>>

\* A mutant of forwardToDO: no timeout is set for the request.
RequestTimeout_NoTimer(r) ==
    /\ r \in pendingRequests
    /\ FALSE
    /\ UNCHANGED vars

\* bridge, forwardToDO: the timeout of a pending request fires; the request
\* is deleted and rejected with "Request timeout".
RequestTimeout(r) ==
    /\ r \in pendingRequests
    /\ clock >= bridgeRequests[r].sentAt + REQUEST_TIMEOUT
    /\ pendingRequests' = pendingRequests \ {r}
    /\ bridgeRequests' = [bridgeRequests EXCEPT
           ![r] = settle(bridgeRequests[r], "Request timeout")]
    /\ UNCHANGED <<orchestratorVars, gateVars, handlerErrors, rpcLog, rpcAwaiting, journal, agentVars, callVars, sockets, mcpBridgeSocket, doConnection, wire>>

\* Time passes while the bridge forwards requests.
BridgeAdvance ==
    /\ clock < MaxBridgeTicks * Tick
    /\ clock' = clock + Tick
    /\ UNCHANGED <<uuid, storeVars, uplinkVars, sessionVars, inv, alarmVars, toolVars,
                   otherVars>>

\* The bodies of the POSTs where the completion of the forwarded requests is
\* the subject: a ping, which is answered, and a tools/call without params,
\* on which the listener fails.
ForwardBodies == {JsonRpcRequest("ping"), JsonRpcRequest("tools/call")}

\* An HTTP POST while the model still has the time for its timeout.
ForwardPost ==
    /\ clock < MaxBridgeTicks * Tick
    /\ HttpPostOf(ForwardBodies)

\* A DELETE reaches the HTTP server in the first ticks of the clock.
ForwardDelete ==
    /\ clock < MaxBridgeTicks * Tick
    /\ HttpDelete

\* Time passes while requests are pending, long enough for the timeout of
\* the last request forwarded.
ForwardAdvance ==
    /\ clock < MaxBridgeTicks * Tick + REQUEST_TIMEOUT
    /\ clock' = clock + Tick
    /\ UNCHANGED <<uuid, storeVars, uplinkVars, sessionVars, inv, alarmVars, toolVars,
                   otherVars>>

\* ------------------------------------------- the agent's web tools
\* Fetches of pages in a run.
MaxFetch == 2
Urls == {"https://a.example/", "https://b.example/"}
\* outie/config.ts: fetched pages are truncated to this length.
MAX_PAGE_CONTENT_LENGTH == 8000
\* The environments of the worker: with and without the Cloudflare bindings
\* CF_API_TOKEN and CF_ACCOUNT_ID.
Envs == {[CF_API_TOKEN |-> t, CF_ACCOUNT_ID |-> t] : t \in BOOLEAN}

\* What fetchPageAsMarkdown can do with a URL: throw, or return the markdown
\* of the page, given by its pieces and its length.
Pages ==
    { [thrown |-> TRUE, markdown |-> <<"HTTP 500">>, length |-> 0],
      [thrown |-> FALSE, markdown |-> << >>, length |-> 0],
      [thrown |-> FALSE, markdown |-> <<"markdown">>, length |-> MAX_PAGE_CONTENT_LENGTH],
      [thrown |-> FALSE, markdown |-> <<"markdown">>, length |-> MAX_PAGE_CONTENT_LENGTH + 1],
      [thrown |-> FALSE, markdown |-> <<"BLOCKED: URL ">>, length |-> 13] }

\* The result of fetchPage: the text returned and the HTTP calls made.
Fetched(text, httpCalls) == [text |-> text, httpCalls |-> httpCalls]
\* fetchPage has called fetchPageAsMarkdown and awaits it: the HTTP call is
\* made and nothing is returned yet.
Fetching == Fetched(<< >>, 1)

\* A mutant of fetchPage: the allowlist is not consulted.
fetchPageCalled_NoAllowlist(allowed, configuration, url) ==
    IF ~(configuration.CF_API_TOKEN /\ configuration.CF_ACCOUNT_ID)
    THEN Fetched(<<"Error: CF_API_TOKEN or CF_ACCOUNT_ID not configured">>, 0)
    ELSE Fetching

\* Outie.fetchPage(url, waitForJs) from its call to its await of
\* fetchPageAsMarkdown: the allowlist and the configuration are tested, and
\* a call that fails either test returns at once.
fetchPageCalled(allowed, configuration, url) ==
    IF url \notin allowed
    THEN Fetched(<<"BLOCKED: URL ", url, " not in allowlist. URLs must come from search results or user messages.">>, 0)
    ELSE IF ~(configuration.CF_API_TOKEN /\ configuration.CF_ACCOUNT_ID)
    THEN Fetched(<<"Error: CF_API_TOKEN or CF_ACCOUNT_ID not configured">>, 0)
    ELSE Fetching

\* Outie.fetchPage from the end of fetchPageAsMarkdown, which threw or
\* returned the markdown of the page.
fetchPageFetched(url, page) ==
    IF page.thrown THEN Fetched(<<"Fetch error: ">> \o page.markdown, 1)
    ELSE IF page.length = 0 THEN Fetched(<<"No content found at ", url>>, 1)
    ELSE IF page.length > MAX_PAGE_CONTENT_LENGTH
         THEN Fetched(page.markdown \o <<"[Content truncated...]">>, 1)
    ELSE Fetched(page.markdown, 1)

\* A call of fetchPage: its URL, the allowlist when it was called, whether
\* it has returned, the allowlist when it returned, and its result.
FetchCall(url, allowed, result) ==
    [url |-> url, allowed |-> allowed, returned |-> result # Fetching,
     allowedAtReturn |-> allowed, result |-> result]

\* The tool fetch_page: fetchPage is called and runs up to its await of
\* fetchPageAsMarkdown, or returns before it.
FetchPageCalled ==
    /\ Len(fetchLog) < MaxFetch
    /\ \E url \in Urls :
         fetchLog' = Append(fetchLog,
                            FetchCall(url, allowedUrls, fetchPageCalled(allowedUrls, env, url)))
    /\ UNCHANGED <<orchestratorVars, gateVars, rpcLog, rpcAwaiting, journal, bridgeVars, callVars, env, allowedUrls>>

\* fetchPageAsMarkdown ends for a call of fetchPage that awaits it, and
\* fetchPage returns.  The allowlist is not read again.
FetchPageReturns ==
    /\ \E k \in 1..Len(fetchLog), page \in Pages :
         /\ ~fetchLog[k].returned
         /\ fetchLog' = [fetchLog EXCEPT
                            ![k].returned = TRUE,
                            ![k].allowedAtReturn = allowedUrls,
                            ![k].result = fetchPageFetched(fetchLog[k].url, page)]
    /\ UNCHANGED <<orchestratorVars, gateVars, rpcLog, rpcAwaiting, journal, bridgeVars, callVars, env, allowedUrls>>

\* webSearch and newsSearch: the URLs of the results join the allowlist.
\* Without results (no API key, a failed search, nothing found) it is unchanged.
Search ==
    /\ \E results \in SUBSET Urls : allowedUrls' = allowedUrls \cup results
    /\ UNCHANGED <<orchestratorVars, gateVars, rpcLog, rpcAwaiting, journal, bridgeVars, callVars, env, fetchLog>>

\* chat(userMessage): the URLs extracted from the message join the allowlist.
AgentChat ==
    /\ \E userUrls \in SUBSET Urls : allowedUrls' = allowedUrls \cup userUrls
    /\ UNCHANGED <<orchestratorVars, gateVars, rpcLog, rpcAwaiting, journal, bridgeVars, callVars, env, fetchLog>>

\* resetConversation: the allowlist is cleared.
ResetConversation ==
    /\ allowedUrls' = {}
    /\ UNCHANGED <<orchestratorVars, gateVars, rpcLog, rpcAwaiting, journal, bridgeVars, callVars, env, fetchLog>>

\* ------------------------------------------- the cron evaluator alone
\* Expressions of five fields, each '*' or an integer literal in its range.
CronExpressions ==
    {<<minute, hour, dayOfMonth, month, dayOfWeek>> :
        minute \in {"*", "0", "1"}, hour \in {"*", "0", "9"},
        dayOfMonth \in {"*", "2"}, month \in {"*", "1"}, dayOfWeek \in {"*", "0", "4"}}
\* Expressions with the wrong number of fields, with a field that is no
\* number, and with ranges and steps.
MalformedExpressions ==
    { << >>, <<"0", "9", "*", "*">>, <<"0", "9", "*", "*", "*", "*">>,
      <<"x", "9", "*", "*", "*">>, <<"0", "x", "*", "*", "*">>, <<"0", "9", "*", "*", "x">>,
      <<"*/5", "*", "*", "*", "*">>, <<"0", "9", "*", "*", "1-5">> }
\* Expressions that name Sunday as day 7 of the week.
SundayAsSeven == { <<"0", "9", "*", "*", "7">>, <<"*", "*", "*", "*", "7">> }
\* The times of evaluation: Thursday 1 January 1970 at 00:00:00, 00:00:20,
\* 00:01:00, 09:00:00 and 09:00:20, and Friday 2 January at 10:00:00.
CronNows == {0, 20000, MINUTE, 9 * HOUR, 9 * HOUR + 20000, DAY + 10 * HOUR}

\* A call of getNextCronTime(cron) at the time now.
EvaluateCron ==
    /\ cronCall.outcome = NotEvaluated
    /\ cronCall' = [cronCall EXCEPT !.outcome = getNextCronTimeOutcome(cronCall.cron, cronCall.now)]
    /\ UNCHANGED <<orchestratorVars, gateVars, rpcLog, rpcAwaiting, journal, bridgeVars, agentVars, codingCall>>

\* ------------------------------------------- the coding task decision
\* outie/config.ts: a coding task older than this starts a fresh branch.
CODING_TASK_STALE_HOURS == 24
\* No row of coding_task_state for the repository.
NoCodingTaskState == [present |-> FALSE, lastTimestamp |-> 0, lastTask |-> "none"]
CodingTaskState(lastTimestamp, lastTask) ==
    [present |-> TRUE, lastTimestamp |-> lastTimestamp, lastTask |-> lastTask]
\* The times of the decision, and the times of the previous task: at the
\* decision, a millisecond less than 24 hours before it, 24 hours before
\* it, a millisecond more, and 48 hours before it.
CodingNows == {48 * HOUR, 72 * HOUR}
CodingAges == {0, 24 * HOUR - 1, 24 * HOUR, 24 * HOUR + 1, 48 * HOUR}
CodingTasks == {"fix the login bug", "add dark mode"}
\* What the model replies to the question continue-or-new: the two JSON
\* answers, a "new" without branch, a text without JSON, or an error.
ModelAnswers == {"continue", "new with branch", "new without branch", "no json", "throws"}
\* What the model replies when asked for a branch name: a usable name, an
\* unusable one, or an error.
BranchAnswers == {"outie/slug", "unusable", "throws"}

Decision(action, branch) == [action |-> action, branch |-> branch]
Undecided == Decision("none", << >>)

\* generateBranchName: the model's name with a hash suffix if it is usable,
\* a slug of the task otherwise.
generateBranchName(task, branchAnswer) ==
    IF branchAnswer = "outie/slug" THEN <<"outie/slug", "-", "suffix">>
    ELSE <<"outie/", task, "-", "suffix">>

\* A mutant of decideCodingTaskAction: the age of the previous task is not
\* looked at.
decideCodingTaskAction_NoStale(task, previousState, now, modelAnswer, branchAnswer) ==
    IF ~previousState.present THEN Decision("new", generateBranchName(task, branchAnswer))
    ELSE IF modelAnswer = "continue" THEN Decision("continue", << >>)
    ELSE IF modelAnswer = "new with branch" THEN Decision("new", <<"outie/model", "-", "suffix">>)
    ELSE Decision("new", generateBranchName(task, branchAnswer))

\* decideCodingTaskAction(env, repoUrl, task, previousState) at the time now.
decideCodingTaskAction(task, previousState, now, modelAnswer, branchAnswer) ==
    IF ~previousState.present THEN Decision("new", generateBranchName(task, branchAnswer))
    ELSE IF now - previousState.lastTimestamp > CODING_TASK_STALE_HOURS * HOUR
         THEN Decision("new", generateBranchName(task, branchAnswer))
    ELSE IF modelAnswer = "continue" THEN Decision("continue", << >>)
    ELSE IF modelAnswer = "new with branch" THEN Decision("new", <<"outie/model", "-", "suffix">>)
    ELSE Decision("new", generateBranchName(task, branchAnswer))

\* runManagedCodingTask up to its decision.
DecideCodingTask ==
    /\ codingCall.decision = Undecided
    /\ codingCall' = [codingCall EXCEPT !.decision =
           decideCodingTaskAction(codingCall.task, codingCall.previousState, codingCall.now,
                                  codingCall.modelAnswer, codingCall.branchAnswer)]
    /\ UNCHANGED <<orchestratorVars, gateVars, rpcLog, rpcAwaiting, journal, bridgeVars, agentVars, cronCall>>

\* ------------------------------------------- the commit gate
\* The sessions of the engine; 0 stands for an event without a session id.
GateSessions == 0..2
\* What git reports: whether the directory is a repository, the text of
\* `git status --porcelain`, whether the branch has an upstream, and the
\* text of `git log @{u}.. --oneline`.
GitState(repo, status, upstream, unpushed) ==
    [repo |-> repo, status |-> status, upstream |-> upstream, unpushed |-> unpushed]
CleanGit == GitState(TRUE, << >>, TRUE, << >>)
GitStates ==
    { CleanGit,
      GitState(TRUE, <<"\n">>, TRUE, << >>),
      GitState(TRUE, <<" ", "M file", "\n">>, TRUE, << >>),
      GitState(TRUE, << >>, TRUE, <<"abc fix", "\n">>),
      GitState(TRUE, << >>, FALSE, << >>),
      GitState(FALSE, << >>, FALSE, << >>) }

\* unpushed: the text of git log, "no-upstream" when it fails.
unpushedOf(state) == IF state.upstream THEN state.unpushed ELSE <<"no-upstream">>
hasUncommitted(state) == trim(state.status) # << >>
hasUnpushed(state) == unpushedOf(state) = <<"no-upstream">> \/ trim(unpushedOf(state)) # << >>
\* const stateHash = `${status.trim()}|${unpushed.trim()}`
stateHash(state) == trim(state.status) \o <<"|">> \o trim(unpushedOf(state))
promptKey(sessionId, state) == <<sessionId, stateHash(state)>>

\* What the event handler leaves: the set prompted, and whether it called
\* client.session.prompt.
Gate(keys, injected) == [prompted |-> keys, injected |-> injected]

\* A mutant of the handler: the set prompted is not consulted.
sessionIdle_NoGuard(keys, sessionId, state) ==
    IF sessionId = 0 \/ ~state.repo THEN Gate(keys, FALSE)
    ELSE IF ~hasUncommitted(state) /\ ~hasUnpushed(state)
         THEN Gate({key \in keys : key[1] # sessionId}, FALSE)
    ELSE Gate(keys \cup {promptKey(sessionId, state)}, TRUE)

\* CommitGatePlugin, the handler of a session.idle event.
sessionIdle(keys, sessionId, state) ==
    IF sessionId = 0 \/ ~state.repo THEN Gate(keys, FALSE)
    ELSE IF ~hasUncommitted(state) /\ ~hasUnpushed(state)
         THEN Gate({key \in keys : key[1] # sessionId}, FALSE)
    ELSE IF promptKey(sessionId, state) \in keys THEN Gate(keys, FALSE)
    ELSE Gate(keys \cup {promptKey(sessionId, state)}, TRUE)

\* A line of the gate's log: a change of the git state, or a run of the
\* handler that has ended, with the git state it saw, the number of lines
\* logged when it began, and whether it called client.session.prompt.
GateEvent(kind, sessionId, state, began, injected) ==
    [kind |-> kind, session |-> sessionId, state |-> state, began |-> began,
     injected |-> injected]

\* A run of the handler that awaits `git status` (pc "status") or, with the
\* status it has read, `git log` (pc "log"; `git branch`, awaited between the
\* two, reads nothing of the state above).
GateRun(sessionId, pc, status, began) ==
    [session |-> sessionId, pc |-> pc, status |-> status, began |-> began]

\* The runs without the run k.
withoutRun(runs, k) == SubSeq(runs, 1, k - 1) \o SubSeq(runs, k + 1, Len(runs))

\* What a run has seen of the git state: the status it read first, the
\* upstream and the unpushed commits it reads now.
seenState(status, state) ==
    GitState(TRUE, status, state.repo /\ state.upstream, state.unpushed)

\* A session.idle event reaches the plugin: without a session id the
\* handler returns, otherwise it runs `git status` and awaits its text.
SessionIdle ==
    /\ Len(gateLog) + Len(gateRuns) < MaxGateEvents
    /\ \E sessionId \in GateSessions :
         IF sessionId = 0
         THEN /\ gateLog' = Append(gateLog, GateEvent("idle", sessionId, gitState,
                                                      Len(gateLog), FALSE))
              /\ UNCHANGED gateRuns
         ELSE /\ gateRuns' = Append(gateRuns, GateRun(sessionId, "status", << >>, Len(gateLog)))
              /\ UNCHANGED gateLog
    /\ UNCHANGED <<orchestratorVars, rpcLog, rpcAwaiting, journal, bridgeVars, agentVars, callVars, gitState, prompted>>

\* `git status --porcelain` answers a run: outside a repository it throws and
\* the handler returns; otherwise the handler goes on to `git branch` and
\* `git log` with the text.
GitStatusAnswers ==
    /\ \E k \in 1..Len(gateRuns) :
         /\ gateRuns[k].pc = "status"
         /\ IF ~gitState.repo
            THEN /\ gateRuns' = withoutRun(gateRuns, k)
                 /\ gateLog' = Append(gateLog,
                        GateEvent("idle", gateRuns[k].session, gitState, gateRuns[k].began,
                                  sessionIdle(prompted, gateRuns[k].session, gitState).injected))
            ELSE /\ gateRuns' = [gateRuns EXCEPT ![k].pc = "log", ![k].status = gitState.status]
                 /\ UNCHANGED gateLog
    /\ UNCHANGED <<orchestratorVars, rpcLog, rpcAwaiting, journal, bridgeVars, agentVars, callVars, gitState, prompted>>

\* `git log @{u}.. --oneline` answers a run: the handler computes the hash of
\* what it has read, consults and updates the set prompted, and sends the
\* follow-up prompt or returns.
GitLogAnswers ==
    /\ \E k \in 1..Len(gateRuns) :
         /\ gateRuns[k].pc = "log"
         /\ LET seen == seenState(gateRuns[k].status, gitState)
                gate == sessionIdle(prompted, gateRuns[k].session, seen)
            IN  /\ prompted' = gate.prompted
                /\ gateLog' = Append(gateLog, GateEvent("idle", gateRuns[k].session, seen,
                                                        gateRuns[k].began, gate.injected))
         /\ gateRuns' = withoutRun(gateRuns, k)
    /\ UNCHANGED <<orchestratorVars, rpcLog, rpcAwaiting, journal, bridgeVars, agentVars, callVars, gitState>>

\* The agent, or anything else in the sandbox, changes the git state.
GitChanges ==
    /\ Len(gateLog) + Len(gateRuns) < MaxGateEvents
    /\ \E state \in GitStates \ {gitState} :
         /\ gitState' = state
         /\ gateLog' = Append(gateLog, GateEvent("git", 0, state, Len(gateLog), FALSE))
    /\ UNCHANGED <<orchestratorVars, rpcLog, rpcAwaiting, journal, bridgeVars, agentVars, callVars, prompted, gateRuns>>

\* Time passes.
Advance ==
    /\ clock < MaxClock
    /\ clock' = clock + Step(clock)
    /\ UNCHANGED <<uuid, storeVars, uplinkVars, sessionVars, inv, alarmVars, otherVars, toolVars>>

\* Time passes between chat messages.
ChatAdvance ==
    /\ clock < MaxChatTicks * Tick
    /\ Advance

\* The state after construction, for a given environment.
Constructed ==
    /\ clock = 0
    /\ uuid = 0
    /\ conversation = << >>
    /\ reminders = << >>
    /\ alarmAt = 0
    /\ mcpBridgeConnecting = FALSE
    /\ currentSessionId = 0
    /\ isProcessing = FALSE
    /\ nextSession = 0
    /\ given = {}
    /\ inv = [i \in Inv |-> IdleInv]
    /\ alarmPc = "idle"
    /\ alarmNow = 0
    /\ alarmReminders = << >>
    /\ alarmIdx = 0
    /\ alarmInv = 0
    /\ fired = << >>
    /\ missed = << >>
    /\ summaries = << >>
    /\ absorbedTo = << >>
    /\ toolResult = NoResult
    /\ rpcLog = << >>
    /\ rpcAwaiting = << >>
    /\ sockets = [ws \in Sockets |-> [orch |-> "none", bridge |-> "none"]]
    /\ mcpBridgeSocket = 0
    /\ doConnection = 0
    /\ pendingRequests = {}
    /\ bridgeRequests = << >>
    /\ wire = {}
    /\ handlerErrors = {}
    /\ allowedUrls = {}
    /\ fetchLog = << >>
    /\ journal = << >>
    /\ gitState = CleanGit
    /\ prompted = {}
    /\ gateLog = << >>
    /\ gateRuns = << >>

\* No call of a pure function is under way.
NoCalls ==
    /\ cronCall = [cron |-> <<"1", "0", "*", "*", "*">>, now |-> 0,
                   outcome |-> CronReturns(MINUTE)]
    /\ codingCall = [task |-> "add dark mode", previousState |-> NoCodingTaskState,
                     now |-> 48 * HOUR, modelAnswer |-> "continue",
                     branchAnswer |-> "outie/slug",
                     decision |-> Decision("new", <<"outie/slug", "-", "suffix">>)]

Init ==
    /\ Constructed
    /\ env = [CF_API_TOKEN |-> TRUE, CF_ACCOUNT_ID |-> TRUE]
    /\ NoCalls

\* The session coordinator under chat triggers.
NextSession ==
    \/ \E i \in Inv : Chat(i)
    \/ \E i \in Inv : ChatContextFails(i)
    \/ \E i \in Inv : InvokeStep(i)
    \/ BridgeOpen
    \/ ChatAdvance

SpecSession == Init /\ [][NextSession]_vars

\* The answers of the engine where the scheduler is the subject: no text, so
\* that no assistant Message is stored.
SilentParts == { << >> }

\* The steps of the invocations where the scheduler is the subject.
AlarmInvokeStep(i) == InvokeStepOf(i, SilentParts)

\* The chat messages where the scheduler is the subject: the first has the
\* uplink opened, and the others arrive while it is being connected.
EarlyChat(i) ==
    /\ i <= MaxEarlyChats
    /\ clock = 0
    /\ i > 1 => mcpBridgeConnecting
    /\ ~UplinkIsOpen
    /\ Chat(i)

\* Time passes where the scheduler is the subject: once the invocations of
\* the chat messages have returned or thrown.
SchedulerAdvance ==
    /\ \A i \in Inv : inv[i].type = "message" => inv[i].pc \in Exited
    /\ Advance

\* The scheduler: the alarm, the invocations it dispatches, and the tools.
NextAlarm ==
    \/ \E i \in Inv : EarlyChat(i)
    \/ AlarmFires
    \/ ScheduleRecurring
    \/ ScheduleOnce
    \/ CancelReminder
    \/ \E i \in Inv : AlarmInvokeStep(i)
    \/ BridgeOpen
    \/ SchedulerAdvance

SpecAlarm == Init /\ [][NextAlarm]_vars

\* Time passes while the tools are called with any id.
ToolAdvance ==
    /\ clock < MaxToolTicks * Tick
    /\ SchedulerAdvance

\* The tools called with any id and any cron argument, the alarm and the
\* invocations it dispatches.
NextTools ==
    \/ \E i \in Inv : EarlyChat(i)
    \/ AlarmFires
    \/ ScheduleRecurringOf(ReminderIds, CronArgs)
    \/ ScheduleOnceOf(ReminderIds, ToolOnceTimes)
    \/ CancelReminder
    \/ \E i \in Inv : AlarmInvokeStep(i)
    \/ BridgeOpen
    \/ ToolAdvance

SpecTools == Init /\ [][NextTools]_vars

\* The answers of the engine where the summaries are the subject: a text, so
\* that every prompt that returns stores an assistant Message.
SpokenParts == { <<TextPart(<<"o", "k">>)>> }

\* The session coordinator under chat triggers, with the engine calling
\* save_conversation_summary and the buffer reset through resetConversation.
NextSummary ==
    \/ \E i \in Inv : Chat(i)
    \/ \E i \in Inv : ChatContextFails(i)
    \/ \E i \in Inv : InvokeStepOf(i, SpokenParts)
    \/ BridgeOpen
    \/ SaveConversationSummary
    \/ SaveConversationSummaryFails
    \/ ClearConversationFails
    \/ OrchestratorResetConversation
    \/ ChatAdvance

SpecSummary == Init /\ [][NextSummary]_vars

\* The MCP server answering the requests the bridge forwards.
NextMcp == HandleJsonRpc \/ EmbeddingArrives

SpecMcp == Init /\ [][NextMcp]_vars

\* The uplink between the orchestrator and the bridge, and the requests the
\* bridge forwards over it.
NextUplink ==
    \/ UplinkConnectStarts
    \/ BridgeOpen
    \/ UplinkConnected
    \/ UplinkConnectFails
    \/ \E ws \in Sockets : UplinkClosed(ws)
    \/ \E ws \in Sockets : UplinkErrored(ws)
    \/ \E ws \in Sockets : BridgeClose(ws)
    \/ HttpPost
    \/ HttpDelete
    \/ UplinkMessage
    \/ EmbeddingArrives
    \/ BridgeMessage
    \/ \E r \in 1..MaxBridgeRequests : RequestTimeout(r)
    \/ BridgeAdvance

SpecUplink == Init /\ [][NextUplink]_vars

\* The agent's web tools, in any environment.
InitFetch == Constructed /\ env \in Envs /\ NoCalls
NextFetch ==
    \/ FetchPageCalled
    \/ FetchPageReturns
    \/ Search
    \/ AgentChat
    \/ ResetConversation

SpecFetch == InitFetch /\ [][NextFetch]_vars

\* The cron evaluator, on every expression and time of evaluation above.
InitCron ==
    /\ Constructed
    /\ env = [CF_API_TOKEN |-> TRUE, CF_ACCOUNT_ID |-> TRUE]
    /\ cronCall \in {[cron |-> cron, now |-> now, outcome |-> NotEvaluated] :
                        cron \in CronExpressions \cup MalformedExpressions \cup SundayAsSeven,
                        now \in CronNows}
    /\ codingCall = [task |-> "add dark mode", previousState |-> NoCodingTaskState,
                     now |-> 48 * HOUR, modelAnswer |-> "continue",
                     branchAnswer |-> "outie/slug",
                     decision |-> Decision("new", <<"outie/slug", "-", "suffix">>)]
NextCron == EvaluateCron

SpecCron == InitCron /\ [][NextCron]_vars

\* The coding task decision, on every input above.
InitCoding ==
    /\ Constructed
    /\ env = [CF_API_TOKEN |-> TRUE, CF_ACCOUNT_ID |-> TRUE]
    /\ cronCall = [cron |-> <<"1", "0", "*", "*", "*">>, now |-> 0,
                   outcome |-> CronReturns(MINUTE)]
    /\ codingCall \in
         {[task |-> task, previousState |-> previousState, now |-> now,
           modelAnswer |-> modelAnswer, branchAnswer |-> branchAnswer, decision |-> Undecided] :
             task \in CodingTasks,
             previousState \in {NoCodingTaskState} \cup
                 {CodingTaskState(48 * HOUR - age, lastTask) : age \in CodingAges,
                                                              lastTask \in CodingTasks},
             now \in CodingNows, modelAnswer \in ModelAnswers, branchAnswer \in BranchAnswers}
NextCoding == DecideCodingTask

SpecCoding == InitCoding /\ [][NextCoding]_vars

\* The commit gate of the engine's sessions.
NextGate ==
    \/ SessionIdle
    \/ GitStatusAnswers
    \/ GitLogAnswers
    \/ GitChanges

SpecGate == Init /\ [][NextGate]_vars

\* Time passes, but not beyond the time of an installed alarm that the
\* runtime can deliver.
PunctualAdvance ==
    /\ ~(alarmPc = "idle" /\ alarmAt # 0 /\ clock >= alarmAt)
    /\ SchedulerAdvance

\* The scheduler when the runtime delivers every alarm at its installed
\* time, or as soon as the alarm() that is running has returned.
NextPunctual ==
    \/ \E i \in Inv : EarlyChat(i)
    \/ AlarmFires
    \/ ScheduleRecurring
    \/ ScheduleOnce
    \/ CancelReminder
    \/ \E i \in Inv : AlarmInvokeStep(i)
    \/ BridgeOpen
    \/ PunctualAdvance

SpecPunctual == Init /\ [][NextPunctual]_vars

\* The uplink and the bridge with an orchestrator that can fail on a frame.
\* Time passes and the timers of forwardToDO fire when they are due.
NextForward ==
    \/ UplinkConnectStarts
    \/ BridgeOpen
    \/ UplinkConnected
    \/ UplinkConnectFails
    \/ \E ws \in Sockets : UplinkClosed(ws)
    \/ \E ws \in Sockets : UplinkErrored(ws)
    \/ \E ws \in Sockets : BridgeClose(ws)
    \/ ForwardPost
    \/ ForwardDelete
    \/ UplinkMessage
    \/ BridgeMessage
    \/ \E r \in 1..MaxBridgeRequests : RequestTimeout(r)
    \/ ForwardAdvance

SpecForward ==
    /\ Init
    /\ [][NextForward]_vars
    /\ WF_vars(ForwardAdvance)
    /\ \A r \in 1..MaxBridgeRequests : WF_vars(RequestTimeout(r))

Next == NextSession \/ NextAlarm \/ NextTools \/ NextSummary \/ NextMcp \/ NextUplink \/ NextFetch \/ NextCron \/ NextCoding \/ NextGate \/ NextPunctual \/ NextForward

Spec == Init /\ [][Next]_vars

\* ------------------------------------------------------------ claims
\* The invocation i leaves invoke in this step, by return or by throw.
Exits(i) == inv[i].pc \notin Exited /\ inv'[i].pc \in Exited

\* The row of the conversation buffer, as buildContext reads it, that holds
\* the user Message of invocation i (0 when it holds none).
UserRow(i) ==
    LET rc == getRecentConversation(conversation, RECENT_LIMIT)
        at == {k \in 1..Len(rc) : /\ rc[k].id = inv[i].userMsg
                                  /\ rc[k].role = "user"
                                  /\ rc[k].content = inv[i].payload}
    IN  IF at = {} THEN 0 ELSE CHOOSE k \in at : TRUE

\* C1: there are never two distinct session ids that each have a
\* session.prompt call outstanding.
C1_AtMostOneActiveSession ==
    \A i, j \in Inv :
        inv[i].pc = "prompt" /\ inv[j].pc = "prompt"
            => inv[i].sessionId = inv[j].sessionId

\* C2 as claimed: whenever an invocation leaves invoke, by return or by a
\* throw at any step, isProcessing is false.
C2_FalseOnEveryExit ==
    [][\A i \in Inv : Exits(i) => ~isProcessing']_vars

\* C2 as amended: whenever an invocation leaves invoke, isProcessing is false,
\* unless the invocation threw before it reached session.prompt while the
\* prompt of another invocation is outstanding.
C2_ReleasedOnExit ==
    [][\A i \in Inv :
          Exits(i) /\ isProcessing'
              => /\ inv[i].pc # "prompt"
                 /\ \E j \in Inv : j # i /\ inv'[j].pc = "prompt"]_vars

\* An invocation has thrown out of session.prompt, another has returned, and
\* isProcessing is false.
C2_Witness ==
    /\ ~isProcessing
    /\ \E i, j \in Inv : /\ inv[i].pc = "failed" /\ inv[i].sessionId # 0
                         /\ inv[j].pc = "done"

\* C3: when session.abort of the current session succeeds, the prompt of the
\* interrupting trigger is sent on the session id that was aborted, and no
\* session is created.
C3_ReusesAbortedSession ==
    [][\A i \in Inv :
          inv[i].pc = "abort" /\ inv'[i].pc = "prompt"
              => /\ inv'[i].sessionId = inv[i].aborted
                 /\ nextSession' = nextSession]_vars

\* C4: when session.abort throws, invoke does not throw but calls
\* session.create; the session created is a fresh one, currentSessionId
\* becomes its id and the prompt is sent on it.
C4_AbortFailureCreatesSession ==
    [][\A i \in Inv :
          /\ inv[i].pc = "abort" /\ inv'[i].pc # "abort" /\ ~inv'[i].wasInterrupted
                => inv'[i].pc = "create"
          /\ inv[i].pc = "create" /\ inv[i].aborted # 0 /\ inv'[i].pc = "prompt"
                => /\ inv'[i].sessionId # inv[i].aborted
                   /\ \A j \in Inv : inv[j].sessionId # inv'[i].sessionId
                   /\ currentSessionId' = inv'[i].sessionId]_vars

\* A trigger whose abort failed has its prompt outstanding on a new session,
\* which is the current one.
C4_Witness ==
    \E i \in Inv : /\ inv[i].pc = "prompt"
                   /\ inv[i].aborted # 0 /\ ~inv[i].wasInterrupted
                   /\ inv[i].sessionId # inv[i].aborted
                   /\ currentSessionId = inv[i].sessionId

\* C5: of two message triggers, the second of which arrived while the first
\* was being processed, the conversation buffer holds both user Messages,
\* the first before the second.
C5_BothUserMessagesInArrivalOrder ==
    \A i, j \in Inv :
        i < j /\ inv[i].userMsg # 0 /\ inv[j].userMsg # 0
            => 0 < UserRow(i) /\ UserRow(i) < UserRow(j)

\* The second trigger interrupted the session of the first, whose prompt is
\* still outstanding, and both user Messages are in the buffer.
C5_Witness ==
    \E i, j \in Inv : /\ i < j
                      /\ inv[i].pc = "prompt" /\ inv[j].pc = "prompt"
                      /\ inv[j].wasInterrupted /\ inv[j].aborted = inv[i].sessionId
                      /\ inv[i].userMsg # 0 /\ inv[j].userMsg # 0
                      /\ 0 < UserRow(i) /\ UserRow(i) < UserRow(j)

\* C6: while an engine call of a message trigger is outstanding (abort,
\* session.create or session.prompt), its user Message is in the Store.
C6_UserMessageBeforeEngine ==
    \A i \in Inv :
        inv[i].type = "message" /\ inv[i].pc \in EngineCalls => UserRow(i) > 0

\* A message trigger's first engine call, session.abort, is outstanding and
\* its user Message is stored.
C6_Witness ==
    \E i \in Inv : inv[i].type = "message" /\ inv[i].pc = "abort" /\ UserRow(i) > 0

\* session.prompt of invocation i returns in this step.
Returns(i) == inv[i].pc = "prompt" /\ inv'[i].pc = "done"

\* This step appends one row to the conversation and changes no other: the
\* assistant Message of invocation i, with its response and its trigger type.
AssistantAppended(i) ==
    /\ Len(conversation') = Len(conversation) + 1
    /\ SubSeq(conversation', 1, Len(conversation)) = conversation
    /\ conversation'[Len(conversation')].role = "assistant"
    /\ conversation'[Len(conversation')].content = inv'[i].response
    /\ conversation'[Len(conversation')].trigger = inv[i].type

\* C7 as claimed: when the engine returns for a trigger, exactly one assistant
\* Message with the trigger's type is appended if the response is non-empty,
\* and none if it is empty.
C7_AssistantIffNonEmpty ==
    [][\A i \in Inv :
          Returns(i) => IF inv'[i].response # << >>
                        THEN AssistantAppended(i)
                        ELSE conversation' = conversation]_vars

\* C7 as amended: when the engine returns for a trigger, exactly one assistant
\* Message with the trigger's type is appended if the response holds a
\* character that is not whitespace, and none if it holds only whitespace or
\* is empty.
C7_AssistantIffNonBlank ==
    [][\A i \in Inv :
          Returns(i) => IF trim(inv'[i].response) # << >>
                        THEN AssistantAppended(i)
                        ELSE conversation' = conversation]_vars

\* One trigger's response was stored as an assistant Message of its type, and
\* another's, of whitespace only, was not stored.
C7_Witness ==
    \E i, j \in Inv :
        /\ inv[i].pc = "done" /\ trim(inv[i].response) # << >>
        /\ \E k \in 1..Len(conversation) :
              /\ conversation[k].role = "assistant"
              /\ conversation[k].content = inv[i].response
              /\ conversation[k].trigger = inv[i].type
        /\ inv[j].pc = "done" /\ inv[j].response # << >>
        /\ trim(inv[j].response) = << >>
        /\ \A k \in 1..Len(conversation) : conversation[k].content # inv[j].response

\* Two lines of the log are of one occurrence of one reminder: the same id,
\* the row created once, before the first dispatch, and the same fire time.
SameOccurrence(a, b) ==
    /\ fired[a].id = fired[b].id
    /\ fired[a].createdAt = fired[b].createdAt
    /\ fired[a].createdAt < fired[a].now
    /\ fired[a].time = fired[b].time

\* C8: over alarm deliveries and reschedules, no occurrence of a reminder is
\* dispatched twice.
C8_OncePerOccurrence ==
    \A a, b \in 1..Len(fired) : a < b => ~SameOccurrence(a, b)

\* The lines of the log that alarm() writes in this step: the reminders
\* it dispatches, whether their invoke throws at once or runs to an await.
NewlyFired == (Len(fired) + 1)..Len(fired')

\* alarm() dispatches a reminder in this step.
Dispatches == NewlyFired # {}

\* alarm() dispatches the reminder of this index of the snapshot in this step.
FiredNow(snapshot, k) == \E e \in NewlyFired : fired'[e].id = snapshot[k].id

\* C9: when alarm() dispatches a one-shot reminder, its row is no longer in
\* the Store as invoke is called, and no occurrence of a one-shot is
\* dispatched twice.
C9_OneShotDeletedBeforeDispatch ==
    /\ [][\A e \in NewlyFired :
             fired'[e].oneShot
             => \A k \in 1..Len(reminders') : reminders'[k].id # fired'[e].id]_vars
    /\ [](\A a, b \in 1..Len(fired) :
             a < b /\ fired[a].oneShot => ~SameOccurrence(a, b))

\* alarm() awaits the invoke of a one-shot reminder in its fire window, whose
\* row is gone from the Store.
C9_Witness ==
    /\ alarmPc = "await"
    /\ inv[alarmInv].pc = "sandbox"
    /\ inv[alarmInv].type = "alarm"
    /\ fired[Len(fired)].oneShot
    /\ fired[Len(fired)].id = inv[alarmInv].triggerId
    /\ isDue(fired[Len(fired)].time, alarmNow)
    /\ \A k \in 1..Len(reminders) : reminders[k].id # inv[alarmInv].triggerId

\* alarm() runs its loop in this step: from its start (the now of a later
\* alarm() is a later one) or from an await.
AlarmRuns ==
    \/ alarmPc = "idle" /\ alarmNow' # alarmNow
    \/ alarmPc = "await" /\ (alarmPc' = "idle" \/ Dispatches)

\* C10: alarm() passes over no reminder with |t - now| <= FIRE_WINDOW, and
\* the trigger it dispatches carries the description and the payload of the
\* reminder.
C10_FiresWithinWindowInclusive ==
    [][AlarmRuns =>
          LET snapshot == IF alarmPc = "idle" THEN getAllReminders(reminders)
                          ELSE alarmReminders
              now == alarmNow'
              first == IF alarmPc = "idle" THEN 1 ELSE alarmIdx + 1
              last == IF alarmPc' = "await" THEN alarmIdx' - 1 ELSE Len(snapshot)
          IN  /\ \A k \in first..last :
                    ~FiredNow(snapshot, k)
                    => ~(Abs(reminderTime(snapshot[k], clock) - now) <= FIRE_WINDOW)
              /\ alarmPc' = "await"
                    => /\ inv'[alarmInv'].type = "alarm"
                       /\ inv'[alarmInv'].payload =
                              <<"[REMINDER: ">> \o snapshot[alarmIdx'].description
                                  \o <<"]\n\n">> \o snapshot[alarmIdx'].payload]_vars

\* The ids of the rows of the reminders table.
StoredIds(rows) == {rows[k].id : k \in 1..Len(rows)}

\* C11: when alarm() comes to a one-shot reminder whose scheduledTime is more
\* than MISS_WINDOW before now, it deletes its row and logs it, and does not
\* dispatch it; no reminder that alarm() dispatched was that late.
C11_MissedOneShotDeleted ==
    /\ [][AlarmRuns =>
            LET snapshot == IF alarmPc = "idle" THEN getAllReminders(reminders)
                            ELSE alarmReminders
                first == IF alarmPc = "idle" THEN 1 ELSE alarmIdx + 1
                last == IF alarmPc' = "await" THEN alarmIdx' ELSE Len(snapshot)
            IN  \A k \in first..last :
                   /\ snapshot[k].scheduledTime # 0
                   /\ snapshot[k].scheduledTime < alarmNow' - MISS_WINDOW
                   => /\ snapshot[k].id \notin StoredIds(reminders')
                      /\ ~(alarmPc' = "await" /\ alarmIdx' = k)
                      /\ ~FiredNow(snapshot, k)
                      /\ \E e \in (Len(missed) + 1)..Len(missed') :
                            missed'[e].id = snapshot[k].id]_vars
    /\ [](\A a \in 1..Len(fired) :
             fired[a].oneShot => ~(fired[a].time < fired[a].now - MISS_WINDOW))

\* alarm() has deleted a one-shot that was more than MISS_WINDOW late: its row
\* is gone and it was not dispatched.
C11_Witness ==
    /\ missed # << >>
    /\ missed[Len(missed)].time < missed[Len(missed)].now - MISS_WINDOW
    /\ missed[Len(missed)].id \notin StoredIds(reminders)
    /\ alarmPc = "idle"
    /\ alarmNow = missed[Len(missed)].now
    /\ \A a \in 1..Len(fired) : fired[a].now # missed[Len(missed)].now

\* The Store holds a recurring reminder of this id: a row that alarm() does
\* not take for a one-shot.
StoredRecurring(rows, id) ==
    \E k \in 1..Len(rows) : rows[k].id = id /\ ~isOneShot(rows[k])

\* The step is a tools/call cancel_reminder of this id.
CancelCalled(id) ==
    /\ toolResult' = ToolResult("cancel_reminder", id, 0, "Cancelled reminder")
    /\ reminders' = deleteReminder(reminders, id)

\* C12: a recurring reminder in the Store is still there as a recurring
\* reminder after every step that is not a cancel_reminder of its id.
C12_RecurringUntilCancelled ==
    [][\A id \in ReminderIds :
          StoredRecurring(reminders, id) /\ ~StoredRecurring(reminders', id)
          => CancelCalled(id)]_vars

\* The step is a schedule_recurring or a schedule_once that returns its
\* "Scheduled ..." text.
ScheduleReturns ==
    /\ toolResult' # toolResult \/ reminders' # reminders
    /\ toolResult'.text \in {"Scheduled recurring reminder", "Scheduled one-time reminder"}
    /\ UNCHANGED alarmVars

\* The step ends with a call of scheduleNextAlarm(): a schedule_recurring or
\* schedule_once that stored its reminder, or the end of alarm().
Rescheduled ==
    \/ AlarmRuns /\ alarmPc' = "idle"
    \/ ScheduleReturns

\* The next fire times of the stored reminders at a time.
FireTimes(rows, now) == {reminderTime(rows[k], now) : k \in 1..Len(rows)}

\* C13: after every step that ends with scheduleNextAlarm(), no alarm is
\* installed when the Store holds no reminder, and otherwise the alarm is
\* installed at the least next fire time of the stored reminders.
C13_AlarmAtMinimum ==
    [][Rescheduled =>
          IF reminders' = << >> THEN alarmAt' = 0
          ELSE alarmAt' = Min(FireTimes(reminders', clock))]_vars

\* C14: when schedule_recurring or schedule_once returns its "Scheduled ..."
\* text, the reminder it was called with is the newest row of the Store, and
\* the alarm is the one scheduleNextAlarm() computes from the Store with that
\* row in it: an alarm is installed, no later than the new reminder's time.
C14_StoredThenRescheduled ==
    [][ScheduleReturns =>
          LET row == reminders'[Len(reminders')]
          IN  /\ reminders' # << >>
              /\ row.id = toolResult'.id
              /\ row.createdAt = clock
              /\ row.scheduledTime = toolResult'.datetime
              /\ isOneShot(row) <=> toolResult'.tool = "schedule_once"
              /\ alarmAt' = scheduleNextAlarm(reminders', clock)
              /\ alarmAt' # 0
              /\ alarmAt' <= reminderTime(row, clock)]_vars

\* schedule_once has returned "Scheduled ...": its one-shot is the newest row
\* and the alarm is installed at its time, earlier than the cron reminder's.
C14_Witness ==
    /\ toolResult.text = "Scheduled one-time reminder"
    /\ Len(reminders) = 2
    /\ reminders[2].id = toolResult.id
    /\ reminders[2].scheduledTime = toolResult.datetime
    /\ reminders[1].cronExpression # << >>
    /\ alarmAt = toolResult.datetime
    /\ alarmAt < reminderTime(reminders[1], clock)

\* C15: every reminder in the Store has a cron expression or a scheduled
\* time, and not both.
C15_ExactlyOneSchedule ==
    \A k \in 1..Len(reminders) :
        (reminders[k].cronExpression # << >>) # (reminders[k].scheduledTime # 0)

\* C16: a schedule_once whose datetime is the time of the call is accepted:
\* it returns "Scheduled ..." and its one-shot is in the Store.
C16_NowIsAccepted ==
    [][/\ toolResult' # toolResult
       /\ toolResult'.tool = "schedule_once"
       /\ toolResult'.datetime = clock
       => /\ toolResult'.text = "Scheduled one-time reminder"
          /\ \E k \in 1..Len(reminders') :
                /\ reminders'[k].id = toolResult'.id
                /\ reminders'[k].scheduledTime = clock]_vars

\* The step is a tools/call cancel_reminder that returns for this id.
CancelReturns(id) ==
    /\ toolResult' # toolResult \/ reminders' # reminders
    /\ toolResult'.tool = "cancel_reminder"
    /\ toolResult'.id = id
    /\ UNCHANGED alarmVars

\* C17: cancel_reminder of an id returns "Cancelled reminder" and leaves the
\* Store without a reminder of that id and with every other row as it was;
\* when the Store has no reminder of that id the Store and the alarm are
\* unchanged; and a second cancel of the id would change nothing more.
C17_CancelIdempotent ==
    /\ [][\A id \in ReminderIds :
             CancelReturns(id) =>
                /\ toolResult'.text = "Cancelled reminder"
                /\ id \notin StoredIds(reminders')
                /\ reminders' = SelectSeq(reminders, LAMBDA r : r.id # id)
                /\ alarmAt' = alarmAt
                /\ id \notin StoredIds(reminders) => reminders' = reminders]_vars
    /\ [](\A id \in ReminderIds :
             deleteReminder(deleteReminder(reminders, id), id) = deleteReminder(reminders, id))

\* cancel_reminder has returned for an id that was never scheduled: nothing
\* has been stored, no alarm is installed and alarm() has never run.
C17_Witness ==
    /\ toolResult = ToolResult("cancel_reminder", toolResult.id, 0, "Cancelled reminder")
    /\ reminders = << >>
    /\ alarmAt = 0
    /\ alarmNow = 0
    /\ fired = << >>
    /\ missed = << >>

\* The alarm installed is the one a call of scheduleNextAlarm() would install
\* now: the call would be a no-op.
Settled == alarmAt = scheduleNextAlarm(reminders, clock)

\* C18: when a call of scheduleNextAlarm() would be a no-op, it is still a
\* no-op after any step that changes neither the Store nor the alarm.
C18_SecondCallNoOp ==
    [][Settled /\ reminders' = reminders /\ alarmAt' = alarmAt
       => (alarmAt' = scheduleNextAlarm(reminders', clock'))]_vars

\* C19: no message of the conversation buffer has a timestamp at or before
\* the toTimestamp of a stored summary.
C19_NoMessageUpToSummary ==
    \A s \in 1..Len(summaries), m \in 1..Len(conversation) :
        ~(conversation[m].timestamp <= absorbedTo[s])

\* Some message of the conversation buffer is gone after the step.
MessagesDeleted ==
    \E m \in 1..Len(conversation) :
        \A n \in 1..Len(conversation') : conversation'[n].id # conversation[m].id

\* The step is not the explicit reset: resetConversation() draws no id, and
\* save_conversation_summary draws the id of its entry.
NotReset == uuid' # uuid

\* C20: compaction is one commit: a step that stores a summary leaves in the
\* buffer none of the messages the summary absorbed, and a step other than
\* the explicit reset that deletes messages stores a summary.
C20_CompactionAtomic ==
    [][/\ Len(summaries') > Len(summaries) =>
             \A m \in 1..Len(conversation) :
                 Summarised(conversation[m]) =>
                     \A n \in 1..Len(conversation') :
                         conversation'[n].id # conversation[m].id
       /\ MessagesDeleted /\ NotReset => Len(summaries') = Len(summaries) + 1]_vars

\* The handler of the tool of this request raised an error.
HandlerThrew(request) ==
    /\ request.method = "tools/call"
    /\ request.params
    /\ executeTool(Store, request.name, request.arguments, request.args, request.outcome,
                   clock).thrown

\* C21: every tools/call whose handler raised an error is answered with a
\* result (not a JSON-RPC error, not a rejection) carrying isError: true and
\* the text "Error: " with the message, and every request handled after it
\* that is not a notification and has its params gets a response.
C21_HandlerErrorIsResult ==
    \A k \in 1..Len(rpcLog) :
        HandlerThrew(rpcLog[k].request) =>
            /\ rpcLog[k].response.kind = "result"
            /\ rpcLog[k].response.id = rpcLog[k].request.id
            /\ rpcLog[k].response.isError
            /\ rpcLog[k].response.text =
                  <<"Error: ", executeTool(Store, rpcLog[k].request.name,
                                           rpcLog[k].request.arguments, rpcLog[k].request.args,
                                           rpcLog[k].request.outcome, clock).text>>
            /\ \A j \in (k + 1)..Len(rpcLog) :
                  rpcLog[j].request.method # "initialized"
                  /\ (rpcLog[j].request.method = "tools/call" => rpcLog[j].request.params)
                  => rpcLog[j].response.kind \in {"result", "error"}

\* A registered tool's handler has thrown, and the next request, a ping, was
\* answered.
C21_Witness ==
    /\ Len(rpcLog) = 2
    /\ rpcLog[1].request.name \in RegisteredTools
    /\ rpcLog[1].request.outcome = "throws"
    /\ rpcLog[1].response.isError
    /\ rpcLog[2].request.method = "ping"
    /\ rpcLog[2].response.kind = "result"

\* C22: every tools/call that names a tool which is not registered is
\* answered with a JSON-RPC error of code -32601.
C22_UnknownToolIsMethodNotFound ==
    \A k \in 1..Len(rpcLog) :
        /\ rpcLog[k].request.method = "tools/call"
        /\ rpcLog[k].request.params
        /\ rpcLog[k].request.name \notin RegisteredTools
        => /\ rpcLog[k].response.kind = "error"
           /\ rpcLog[k].response.code = -32601

\* C23: there is one uplink at a time. Whenever the orchestrator and the
\* bridge both hold a socket as their uplink it is the same socket, and a
\* connection attempt that completes leaves the orchestrator holding the new
\* socket, which is the one the bridge took at its opening unless the bridge
\* has already seen it close.
SameUplink == mcpBridgeSocket # 0 /\ doConnection # 0 => mcpBridgeSocket = doConnection
Reconnected == mcpBridgeConnecting /\ ~mcpBridgeConnecting' /\ mcpBridgeSocket' # 0
C23_OneUplink ==
    /\ []SameUplink
    /\ [][Reconnected =>
            /\ mcpBridgeSocket' \in Handshaking
            /\ doConnection' \in {0, mcpBridgeSocket'}
            /\ sockets'[mcpBridgeSocket'].bridge = "closed" <=> doConnection' = 0]_vars
\* A second socket has replaced the first at both ends while the first is
\* still open at both ends.
C23_Witness ==
    /\ mcpBridgeSocket = 2 /\ doConnection = 2
    /\ sockets[1].orch = "open" /\ sockets[1].bridge = "open"

\* C24: when the bridge sees a socket close, every request pending at that
\* moment is rejected with "DO connection closed" and no request is pending
\* afterwards.
BridgeSeesClose == \E ws \in Sockets : sockets[ws].bridge = "open" /\ sockets'[ws].bridge = "closed"
C24_CloseRejectsPending ==
    [][BridgeSeesClose =>
         /\ pendingRequests' = {}
         /\ \A r \in pendingRequests :
              bridgeRequests'[r].settled = "DO connection closed"]_vars
\* Two requests were pending when the socket closed, and both were rejected.
C24_Witness ==
    /\ Len(bridgeRequests) = 2
    /\ \A r \in 1..2 : bridgeRequests[r].settled = "DO connection closed"
    /\ pendingRequests = {}
    /\ doConnection = 0

\* C25: a forwarded request that times out is no longer pending and its HTTP
\* caller is answered with code -32000 and the message "Request timeout".
C25_TimeoutIsMinus32000 ==
    \A r \in 1..Len(bridgeRequests) :
        bridgeRequests[r].settled = "Request timeout" =>
            r \notin pendingRequests /\ bridgeRequests[r].reply.code = -32000

\* The call has returned the "BLOCKED" text and has made no HTTP call.
Blocked(call) ==
    /\ call.returned
    /\ Head(call.result.text) = "BLOCKED: URL "
    /\ call.result.httpCalls = 0

\* C26: a call of fetch_page is answered "BLOCKED" without any HTTP call
\* exactly when its URL is not in the allowlist at the time of the call,
\* whatever becomes of the allowlist while the call awaits the page.
C26_BlockedIffNotAllowed ==
    \A k \in 1..Len(fetchLog) :
        Blocked(fetchLog[k]) <=> fetchLog[k].url \notin fetchLog[k].allowed

\* A URL was fetched over HTTP by a call made while it was allowed, although
\* the allowlist was cleared while the call awaited the page, and a later call
\* for the same URL was blocked.
C26_Witness ==
    /\ Len(fetchLog) = 2
    /\ fetchLog[1].url = fetchLog[2].url
    /\ fetchLog[1].returned
    /\ fetchLog[1].url \in fetchLog[1].allowed
    /\ fetchLog[1].url \notin fetchLog[1].allowedAtReturn
    /\ fetchLog[1].result.httpCalls = 1
    /\ ~Blocked(fetchLog[1])
    /\ fetchLog[2].url \notin fetchLog[2].allowed
    /\ Blocked(fetchLog[2])

\* The calendar of the first weeks of 1970.
dayOfMonthOf(t) == IF t \div DAY < 31 THEN (t \div DAY) + 1 ELSE (t \div DAY) - 30
monthOf(t) == IF t \div DAY < 31 THEN 1 ELSE 2
FieldMatches(field, value) == field = "*" \/ parseInt(field) = value
\* The instant t, a whole minute, satisfies every field of the expression.
CronMatches(cron, t) ==
    /\ t % MINUTE = 0
    /\ FieldMatches(cron[1], (t % HOUR) \div MINUTE)
    /\ FieldMatches(cron[2], (t % DAY) \div HOUR)
    /\ FieldMatches(cron[3], dayOfMonthOf(t))
    /\ FieldMatches(cron[4], monthOf(t))
    /\ FieldMatches(cron[5], getDay(t))
\* The whole minutes after now and before t that the minute and the hour
\* of the expression allow.
MinutesBetween(cron, now, t) ==
    {u \in {d * DAY + h * HOUR + m * MINUTE :
              d \in (now \div DAY)..(t \div DAY),
              h \in IF cron[2] = "*" THEN 0..23 ELSE {parseInt(cron[2])},
              m \in IF cron[1] = "*" THEN 0..59 ELSE {parseInt(cron[1])}} :
        now < u /\ u < t}

\* C27: for an expression of five fields, each '*' or an integer literal,
\* the evaluator returns the earliest time after now that satisfies every
\* field of the expression.
C27_EarliestMatch ==
    (cronCall.cron \in CronExpressions /\ cronCall.outcome # NotEvaluated) =>
        /\ cronCall.outcome.kind = "returns"
        /\ cronCall.outcome.time > cronCall.now
        /\ CronMatches(cronCall.cron, cronCall.outcome.time)
        /\ \A u \in MinutesBetween(cronCall.cron, cronCall.now, cronCall.outcome.time) :
             ~CronMatches(cronCall.cron, u)

\* C28: a malformed expression, and one in a syntax the evaluator does not
\* support, is rejected: the evaluator throws and returns no fire time.
C28_MalformedRejected ==
    (cronCall.cron \in MalformedExpressions /\ cronCall.outcome # NotEvaluated) =>
        cronCall.outcome.kind = "throws"

\* C29: a journal_write handled while the embedder is unavailable stores its
\* entry, without an embedding, and is not answered with an error.
JournalWriteWithoutEmbedder ==
    /\ Len(rpcLog') = Len(rpcLog) + 1
    /\ rpcLog'[Len(rpcLog')].request.name = "journal_write"
    /\ rpcLog'[Len(rpcLog')].request.outcome = "throws"
C29_EntryStoredWithoutEmbedding ==
    [][JournalWriteWithoutEmbedder =>
         /\ Len(journal') = Len(journal) + 1
         /\ ~journal'[Len(journal')].embedded
         /\ ~rpcLog'[Len(rpcLog')].response.isError]_vars

\* C30: the decision is "new" whenever the repository has no previous state
\* or the previous task is more than 24 hours old, whatever the task and
\* whatever the model would answer.
NoStateOrStale(call) ==
    \/ ~call.previousState.present
    \/ call.now - call.previousState.lastTimestamp > 24 * HOUR
C30_NewWhenAbsentOrStale ==
    (codingCall.decision # Undecided /\ NoStateOrStale(codingCall)) =>
        codingCall.decision.action = "new"
\* The previous task is a millisecond more than 24 hours old, the new task
\* is the same task and the model would continue: the decision is "new".
C30_Witness ==
    /\ codingCall.previousState.present
    /\ codingCall.now - codingCall.previousState.lastTimestamp = 24 * HOUR + 1
    /\ codingCall.previousState.lastTask = codingCall.task
    /\ codingCall.modelAnswer = "continue"
    /\ codingCall.decision.action = "new"

\* The idle event k found a dirty or unpushed state in a repository.
DirtyIdle(k) ==
    /\ gateLog[k].kind = "idle" /\ gateLog[k].session # 0 /\ gateLog[k].state.repo
    /\ hasUncommitted(gateLog[k].state) \/ hasUnpushed(gateLog[k].state)
CleanIdle(k) ==
    /\ gateLog[k].kind = "idle" /\ gateLog[k].session # 0 /\ gateLog[k].state.repo
    /\ ~hasUncommitted(gateLog[k].state) /\ ~hasUnpushed(gateLog[k].state)
\* The session of the idle event k has seen the same state hash at an
\* earlier idle event, and was not seen clean since.
SeenBefore(k) ==
    \E i \in 1..(k - 1) :
        /\ DirtyIdle(i)
        /\ gateLog[i].session = gateLog[k].session
        /\ stateHash(gateLog[i].state) = stateHash(gateLog[k].state)
        /\ \A c \in (i + 1)..(k - 1) :
             ~(CleanIdle(c) /\ gateLog[c].session = gateLog[k].session)

\* The run of the handler logged in line k began after the line before it
\* was logged: no other run ended and the git state did not change while it
\* ran.
Undisturbed(k) == gateLog[k].began = k - 1

\* C31: a follow-up prompt is sent by a run of the handler that saw a dirty
\* or unpushed state, and only then, unless the session has already seen the
\* same state hash; so of two idle events of a session handled one after the
\* other with no change of the git state the second sends no follow-up.
C31_GivesUpOnSameState ==
    \A k \in 1..Len(gateLog) :
        /\ gateLog[k].injected <=> (DirtyIdle(k) /\ ~SeenBefore(k))
        /\ (k > 1 /\ DirtyIdle(k) /\ DirtyIdle(k - 1)
              /\ Undisturbed(k) /\ Undisturbed(k - 1)
              /\ gateLog[k - 1].session = gateLog[k].session) => ~gateLog[k].injected
\* A session went idle twice on the same dirty state: the first event sent a
\* follow-up, the second gave up.
C31_Witness ==
    /\ Len(gateLog) >= 3
    /\ DirtyIdle(2) /\ gateLog[2].injected
    /\ DirtyIdle(3) /\ gateLog[3].session = gateLog[2].session /\ ~gateLog[3].injected
    /\ Undisturbed(2) /\ Undisturbed(3)

\* C32: isProcessing is true whenever some invocation has a session.prompt
\* call outstanding.
C32_ProcessingWhilePrompting ==
    (\E i \in Inv : inv[i].pc = "prompt") => isProcessing

\* alarm() is delivered in this step, for the alarm installed at alarmAt.
AlarmDelivered == alarmPc = "idle" /\ alarmNow' # alarmNow /\ alarmAt # 0
\* The alarm installed is the one of an occurrence of this recurring
\* reminder, and it is delivered inside the fire window of the occurrence.
OccurrenceDelivered(reminder) ==
    /\ ~isOneShot(reminder)
    /\ reminder.cronExpression # << >>
    /\ CronMatches(reminder.cronExpression, alarmAt)
    /\ alarmAt <= alarmNow' /\ alarmNow' < alarmAt + FIRE_WINDOW

\* C33: when the alarm installed for an occurrence of a stored recurring
\* reminder is delivered inside the fire window of the occurrence, alarm()
\* does not end without having dispatched a reminder: it dispatches that
\* reminder, or is still at work on the ones before it.
C33_OccurrenceDispatched ==
    [][AlarmDelivered =>
         \A k \in 1..Len(reminders) :
             OccurrenceDelivered(reminders[k]) =>
                 \/ alarmPc' = "await"
                 \/ \E e \in 1..Len(fired') :
                       fired'[e].id = reminders[k].id /\ fired'[e].now = alarmNow']_vars

\* C34: with alarms delivered at their installed time, no one-shot reminder
\* is removed as missed, and while alarm() is not running an alarm is
\* installed as long as a one-shot reminder is stored.
C34_OneShotKeepsAlarm ==
    /\ missed = << >>
    /\ alarmPc = "idle" =>
         \A k \in 1..Len(reminders) : isOneShot(reminders[k]) => alarmAt # 0

\* C35: the evaluation of an expression that schedule_recurring accepts (it
\* accepts every string) terminates: it returns a time or throws, whatever
\* literal stands in the day-of-week field.
C35_EvaluationTerminates ==
    cronCall.outcome.kind # "hangs"

\* C36: save_conversation_summary removes only the messages the summary
\* absorbed: a message appended after the summarised prefix, which no engine
\* session that can call the tool has been given, is still in the buffer
\* after the call.
C36_LaterMessageKept ==
    [][Len(summaries') > Len(summaries) =>
          \A m \in 1..Len(conversation) :
              ~Summarised(conversation[m]) =>
                  \E n \in 1..Len(conversation') : conversation'[n] = conversation[m]]_vars

\* A tools/call of schedule_recurring, schedule_once or cancel_reminder
\* completes with its text of success.
ReminderToolCompletes ==
    \/ ScheduleReturns
    \/ \E id \in ReminderIds : CancelReturns(id) /\ toolResult'.text = "Cancelled reminder"

\* C37: when schedule_recurring, schedule_once or cancel_reminder completes,
\* the alarm installed is the earliest future fire time of the stored
\* reminders, and no alarm is installed when no reminder is stored.
C37_AlarmAgreesAfterTool ==
    [][ReminderToolCompletes =>
          /\ reminders' = << >> => alarmAt' = 0
          /\ alarmAt' = scheduleNextAlarm(reminders', clock')]_vars

\* connectToMcpBridge has returned normally in this invocation, which goes on
\* to createOpencode, the session and the prompt.
PastConnect(i) == inv[i].pc \in {"client", "abort", "create", "prompt"}

\* C38: when connectToMcpBridge returns normally the uplink is open, also
\* for a caller that waited for another invocation's attempt: no invocation
\* goes on to its prompt without an open uplink.
C38_UplinkOpenAfterConnect ==
    [][\A i \in Inv :
          (~PastConnect(i) /\ PastConnect(i)') \/ (inv[i].pc # "prompt" /\ inv[i].pc' = "prompt")
              => UplinkIsOpen']_vars

\* The socket closes on the orchestrator's side, on the bridge's side.
ClosesOnOrchestrator(ws) == sockets[ws].orch = "open" /\ sockets'[ws].orch = "closed"
ClosesOnBridge(ws) == sockets[ws].bridge = "open" /\ sockets'[ws].bridge = "closed"

\* The orchestrator's reference to its current uplink survives the closing
\* of a socket that is not that uplink.
OrchestratorUndisturbed(ws) ==
    (ClosesOnOrchestrator(ws) /\ mcpBridgeSocket \notin {0, ws}) =>
        mcpBridgeSocket' = mcpBridgeSocket

\* The bridge's reference to its current uplink, and the requests pending on
\* it, survive the closing of a socket that is not that uplink.
BridgeUndisturbed(ws) ==
    (ClosesOnBridge(ws) /\ doConnection \notin {0, ws}) =>
        /\ doConnection' = doConnection
        /\ \A r \in pendingRequests :
              bridgeRequests[r].socket = doConnection =>
                  r \in pendingRequests' /\ bridgeRequests'[r].reply = NoReply

\* C39: the closing of an uplink that a newer one has replaced leaves the
\* newer one alone: neither side's reference to the current uplink is
\* cleared, and no request forwarded on the current uplink is rejected.
C39_StaleCloseHarmless ==
    [][\A ws \in Sockets : OrchestratorUndisturbed(ws) /\ BridgeUndisturbed(ws)]_vars

\* The requests the bridge forwarded on an uplink.
Forwarded == {r \in 1..Len(bridgeRequests) : bridgeRequests[r].socket # 0}

\* The ways a forwarded request completes: the orchestrator's response, the
\* timeout, the closing of an uplink.
Completions == {Resolved, "Request timeout", "DO connection closed"}

\* C40: every forwarded request is completed exactly once, by the response,
\* the timeout or the closing of an uplink, and is then no longer pending:
\* a request is pending exactly while forwardToDO has not settled and its
\* caller has no reply, a settled request is never settled or answered
\* again, and every pending request is eventually completed, also when the
\* orchestrator failed on its frame and sent nothing back.
C40_CompletedExactlyOnce ==
    /\ [](\A r \in Forwarded :
             /\ r \in pendingRequests <=> bridgeRequests[r].settled = Pending
             /\ bridgeRequests[r].settled = Pending <=> bridgeRequests[r].reply = NoReply
             /\ bridgeRequests[r].settled # Pending => bridgeRequests[r].settled \in Completions)
    /\ [][\A r \in Forwarded :
             bridgeRequests[r].settled # Pending => bridgeRequests'[r] = bridgeRequests[r]]_vars
    /\ \A r \in 1..MaxBridgeRequests :
          (r \in pendingRequests) ~>
              (r \in Forwarded \ pendingRequests /\ bridgeRequests[r].settled \in Completions)

\* The orchestrator failed on the frame of a request and sent nothing back;
\* the request was completed by its timeout and is no longer pending.
C40_Witness ==
    \E r \in Forwarded :
        /\ r \in handlerErrors
        /\ bridgeRequests[r].settled = "Request timeout"
        /\ r \notin pendingRequests
        /\ clock >= bridgeRequests[r].sentAt + REQUEST_TIMEOUT

====
